---------------------------- MODULE Spec2Model ----------------------------
(***************************************************************************)
(* The bdd_u16 binary-operation engine of biodivine-lib-bdd: the 16-bit    *)
(* variable-length node pointer, the per-variable Bdd container, in-place  *)
(* negation and the explicit-stack apply with its operation cache          *)
(* (TaskStorage) and uniqueness table (NodeStorage).                       *)
(***************************************************************************)
EXTENDS Integers, Sequences, FiniteSets, TLC

(***************************************************************************)
(* Bounds of the model.                                                    *)
(***************************************************************************)
\* Variables VariableId(0) .. VariableId(NumVars - 1) are used by mk_var.
NumVars == 3
\* Number of public operations (not, the six connectives) in one history.
MaxOps == 3

\* NodePointer::new is called with VariableId(0) .. VariableId(MaxVariableId).
MaxVariableId == 130
\* ... and with every node index 0 .. MaxSmallIndex and the indices at most
\* IndexSlack away from a power of two 2^6 .. 2^16.
MaxSmallIndex == 40
IndexSlack == 2

\* Cache2::new is called with a capacity of 1 .. MaxCapacity, and at most
\* MaxInserts different pairs are inserted between two calls of clear.
MaxCapacity == 3
MaxInserts == 2

\* A DynamicOpCache is given pairs of a left pointer 0 or 1 and a right
\* pointer 0 .. MaxPointer, and no insert once it has MaxItems items.
MaxPointer == 2
MaxItems == 4

\* The number of variables of the Bdds given to the task generators.
ChainVars == 8

(***************************************************************************)
(* Program constants.                                                      *)
(***************************************************************************)
VAR_BLOCK_SIZE == 4
\* vec![vec![]; 64] in mk_blank: one node vector per representable variable.
NUM_VECTORS == 64
\* Width of the pointer word (struct NodePointer(u16)).
U16 == 65536

Variables == 0 .. (NumVars - 1)
Bool == {FALSE, TRUE}

(***************************************************************************)
(* Option<T>: None is the empty sequence, Some(x) the one-element one.     *)
(***************************************************************************)
None == << >>
Some(x) == << x >>
is_some(o) == Len(o) = 1
is_none(o) == Len(o) = 0
unwrap(o) == o[1]

(***************************************************************************)
(* u16 arithmetic.                                                         *)
(***************************************************************************)
\* 2^k for the shift amounts of a 16-bit word (0 .. 16).
Pow2Table == << 1, 2, 4, 8, 16, 32, 64, 128, 256, 512, 1024, 2048, 4096, 8192,
                16384, 32768, 65536 >>
pow2(k) == Pow2Table[k + 1]

\* u16::shl: bits shifted beyond bit 15 are dropped.
shl(x, k) == (x * pow2(k)) % U16
shr(x, k) == x \div pow2(k)

RECURSIVE trailing_zeros(_)
\* u16::trailing_zeros; 16 for the zero word.
trailing_zeros(x) ==
    IF x = 0 THEN 16
    ELSE IF x % 2 = 1 THEN 0
    ELSE 1 + trailing_zeros(x \div 2)

(***************************************************************************)
(* NodePointer (src/bdd_u16/_impl_node_pointer.rs)                         *)
(***************************************************************************)
zero == 0
one == 32768

terminal(value) == IF value THEN one ELSE zero

\* self.0 & 0b0111_1111_1111_1111 == 0
is_terminal(p) == p % 32768 = 0

as_bool(p) == IF is_terminal(p) THEN Some(p # 0) ELSE None

is_one(p) == p = 32768
is_zero(p) == p = 0

\* Faulty variant: only the one terminal is flipped.
flip_if_terminal_one_only(p) == IF p = 32768 THEN 0 ELSE p

\* Faulty variant: only the zero terminal is flipped.
flip_if_terminal_zero_only(p) == IF p = 0 THEN 32768 ELSE p

flip_if_terminal(p) ==
    IF is_one(p) THEN zero
    ELSE IF is_zero(p) THEN one
    ELSE p

\* block_rank of NodePointer::new: the number of trailing zeroes of the word.
block_rank_of(variable) ==
    LET block_id == variable \div VAR_BLOCK_SIZE
        is_low_block == (block_id \div 8) % 2 = 0
    IN  IF is_low_block THEN (7 - block_id) % 8 ELSE block_id % 8

\* Faulty variant: the test that the index survives the shift is missing.
new_panics_index_only(variable, node_index) == node_index >= 65536

\* The two panics of NodePointer::new: the index does not fit 16 bits, or it
\* does not survive the shift by total_shift.
new_panics(variable, node_index) ==
    LET total_shift == block_rank_of(variable) + 4
    IN  \/ node_index >= U16
        \/ shr(shl(node_index, total_shift), total_shift) # node_index

\* Faulty variant: the block marker bit is not added.
new_without_marker(variable, node_index) ==
    LET block_id == variable \div 4
        high_flag == IF (block_id \div 8) % 2 = 0 THEN 0 ELSE 1
        pointer == (shl(node_index % 65536, 3) + shl(variable % 4, 1) + high_flag) % 65536
    IN  shl(shl(pointer, 1), block_rank_of(variable))

\* The packing of NodePointer::new (reached when new_panics is false).
new(variable, node_index) ==
    LET id_in_block == variable % VAR_BLOCK_SIZE
        block_id == variable \div VAR_BLOCK_SIZE
        is_low_block == (block_id \div 8) % 2 = 0
        block_rank == block_rank_of(variable)
        high_flag == IF is_low_block THEN 0 ELSE 1
        pointer == (shl(node_index % U16, 3) + shl(id_in_block, 1) + high_flag) % U16
    IN  shl((shl(pointer, 1) + 1) % U16, block_rank)

is_pointer(p) == is_terminal(p) \/ trailing_zeros(p) <= 8

is_non_trivial(p) == is_pointer(p) /\ ~is_terminal(p)

variable_id(p) ==
    LET block_rank == trailing_zeros(p)
        sans_rank == shr(p, block_rank + 1)
        is_low_block == sans_rank % 2 = 0
        id_in_block == shr(sans_rank, 1) % 4
        block_id == IF is_low_block THEN 7 - block_rank ELSE 8 + block_rank
    IN  VAR_BLOCK_SIZE * block_id + id_in_block

\* Faulty variant: the index is shifted by one bit too few.
node_index_short_shift(p) == shr(p, trailing_zeros(p) + 3)

node_index(p) == shr(p, trailing_zeros(p) + 4)

(***************************************************************************)
(* Node (src/bdd_u16/_impl_node.rs): Node(low, high).                      *)
(***************************************************************************)
Node(l, h) == << l, h >>
low(n) == n[1]
high(n) == n[2]

(***************************************************************************)
(* Bdd (src/bdd_u16/_impl_bdd.rs): Bdd(root, Vec<Vec<Node>>).  The vector  *)
(* of variable v is vecs[v + 1].                                           *)
(***************************************************************************)
Bdd(r, vs) == [root |-> r, vecs |-> vs]

mk_false == Bdd(zero, << >>)
mk_true == Bdd(one, << >>)
\* Faulty variant: a constant is given the 64 empty vectors of mk_blank.
mk_const_blank(value) ==
    [root |-> terminal(value), vecs |-> [i \in 1 .. 64 |-> << >>]]

mk_const(value) == Bdd(terminal(value), << >>)

root(bdd) == bdd.root
is_true(bdd) == is_one(root(bdd))
is_false(bdd) == is_zero(root(bdd))

mk_blank(value) == Bdd(terminal(value), [i \in 1 .. NUM_VECTORS |-> << >>])

\* Faulty variant: the pointer is packed without the test of the index.
push_node_unchecked(bdd, variable, n) ==
    LET vector == bdd.vecs[variable + 1]
        index == Len(vector)
    IN  [bdd |-> Bdd(bdd.root, [bdd.vecs EXCEPT ![variable + 1] = Append(vector, n)]),
         pointer |-> new(variable, index),
         panics |-> FALSE]

\* Appends the node and returns the Bdd with the new pointer; panics is set
\* when NodePointer::new rejects the index.
push_node(bdd, variable, n) ==
    LET vector == bdd.vecs[variable + 1]
        index == Len(vector)
    IN  [bdd |-> Bdd(bdd.root, [bdd.vecs EXCEPT ![variable + 1] = Append(vector, n)]),
         pointer |-> new(variable, index),
         panics |-> new_panics(variable, index)]

set_root(bdd, pointer) == Bdd(pointer, bdd.vecs)

mk_var(id, value) ==
    LET n == IF value THEN Node(zero, one) ELSE Node(one, zero)
        pushed == push_node(mk_blank(FALSE), id, n)
    IN  set_root(pushed.bdd, pushed.pointer)

node(bdd, variable, index) == bdd.vecs[variable + 1][index + 1]

RECURSIVE sum_len(_, _)
sum_len(vs, k) == IF k = 0 THEN 0 ELSE Len(vs[k]) + sum_len(vs, k - 1)

node_count(bdd) == sum_len(bdd.vecs, Len(bdd.vecs)) + 2

(***************************************************************************)
(* Bdd::not (src/bdd_u16/_impl_bdd_apply.rs): terminals are flipped in     *)
(* place, the root and the shape of the storage are kept.                  *)
(***************************************************************************)
\* Faulty variant: the high pointer is left as it is.
flip_node_low_only(n) == Node(flip_if_terminal(low(n)), high(n))

flip_node(n) == Node(flip_if_terminal(low(n)), flip_if_terminal(high(n)))

\* Faulty variant: the children of every node are exchanged (Node::flip).
not_by_node_flip(bdd) ==
    IF bdd.root = 32768 THEN [root |-> 0, vecs |-> << >>]
    ELSE IF bdd.root = 0 THEN [root |-> 32768, vecs |-> << >>]
    ELSE [root |-> bdd.root,
          vecs |-> [i \in 1 .. Len(bdd.vecs) |->
                      [k \in 1 .. Len(bdd.vecs[i]) |->
                          << bdd.vecs[i][k][2], bdd.vecs[i][k][1] >>]]]

not(bdd) ==
    IF is_true(bdd) THEN mk_false
    ELSE IF is_false(bdd) THEN mk_true
    ELSE Bdd(root(bdd),
             [i \in 1 .. Len(bdd.vecs) |->
                 [k \in 1 .. Len(bdd.vecs[i]) |-> flip_node(bdd.vecs[i][k])]])

(***************************************************************************)
(* crate::op_function: the terminal lookup tables of the six connectives,  *)
(* (Option<bool>, Option<bool>) -> Option<bool>.                           *)
(***************************************************************************)
Ops == {"and", "or", "xor", "imp", "iff", "and_not"}

\* The connective on two Booleans.
op_value(op, x, y) ==
    CASE op = "and" -> x /\ y
      [] op = "or" -> x \/ y
      [] op = "xor" -> x # y
      [] op = "imp" -> (~x) \/ y
      [] op = "iff" -> x = y
      [] op = "and_not" -> x /\ ~y

\* Tables a caller of apply can pass that miss one pair of terminals: the
\* table of a connective with None in place of one of its entries.
PartialTables == {"and_tt", "or_ff", "xor_ft", "xor_tt"}

\* The connective of a table and the pair of terminals it has no entry for.
table_op(op) ==
    CASE op = "and_tt" -> "and"
      [] op = "or_ff" -> "or"
      [] op \in {"xor_ft", "xor_tt"} -> "xor"
      [] OTHER -> op

table_gap(op) ==
    CASE op = "and_tt" -> {<< TRUE, TRUE >>}
      [] op = "or_ff" -> {<< FALSE, FALSE >>}
      [] op = "xor_ft" -> {<< FALSE, TRUE >>}
      [] op = "xor_tt" -> {<< TRUE, TRUE >>}
      [] OTHER -> {}

\* The table of a connective, total on the pairs of terminals.
total_table(op, l, r) ==
    IF is_some(l) /\ is_some(r) THEN Some(op_value(op, unwrap(l), unwrap(r)))
    ELSE CASE op = "and" ->
                IF l = Some(FALSE) \/ r = Some(FALSE) THEN Some(FALSE) ELSE None
           [] op = "or" ->
                IF l = Some(TRUE) \/ r = Some(TRUE) THEN Some(TRUE) ELSE None
           [] op = "xor" -> None
           [] op = "imp" ->
                IF l = Some(FALSE) \/ r = Some(TRUE) THEN Some(TRUE) ELSE None
           [] op = "iff" -> None
           [] op = "and_not" ->
                IF l = Some(FALSE) \/ r = Some(TRUE) THEN Some(FALSE) ELSE None

\* The lookup table passed to apply: T: Fn(Option<bool>, Option<bool>) ->
\* Option<bool>, one of the six connectives or one of the tables above.
lookup_table(op, l, r) ==
    IF op \in Ops THEN total_table(op, l, r)
    ELSE IF is_some(l) /\ is_some(r) /\ << unwrap(l), unwrap(r) >> \in table_gap(op)
    THEN None
    ELSE total_table(table_op(op), l, r)

(***************************************************************************)
(* NodeStorage (uniqueness table) and TaskStorage (operation cache): hash  *)
(* maps, modelled as functions on the set of their keys.                   *)
(***************************************************************************)
EmptyMap == << >>

\* Faulty variant: the uniqueness table never finds a node.
find_never(nodes, variable, n) == None

find(nodes, variable, n) ==
    IF << variable, n >> \in DOMAIN nodes THEN Some(nodes[<< variable, n >>]) ELSE None

\* Faulty variant: the node is not written to the table.
insert_discard(nodes, variable, n, pointer) == nodes

insert(nodes, variable, n, pointer) ==
    [k \in (DOMAIN nodes) \cup {<< variable, n >>} |->
        IF k = << variable, n >> THEN pointer ELSE nodes[k]]

resolve(tasks, l, r) ==
    IF << l, r >> \in DOMAIN tasks THEN Some(tasks[<< l, r >>]) ELSE None

\* Faulty variant: the cache loses the results of the tasks whose right
\* pointer is a node after the first of its variable.
save_some(tasks, l, r, result) ==
    IF ~is_terminal(r) /\ node_index(r) >= 1 THEN tasks
    ELSE [k \in (DOMAIN tasks) \cup {<< l, r >>} |->
            IF k = << l, r >> THEN result ELSE tasks[k]]

\* Faulty variant: the result is also written over the entry of the task
\* (r, l), if the cache has one.
save_also_mirror(tasks, l, r, result) ==
    [k \in (DOMAIN tasks) \cup {<< l, r >>} |->
        IF k = << l, r >> \/ k = << r, l >> THEN result ELSE tasks[k]]

save(tasks, l, r, result) ==
    [k \in (DOMAIN tasks) \cup {<< l, r >>} |->
        IF k = << l, r >> THEN result ELSE tasks[k]]

(***************************************************************************)
(* apply (src/bdd_u16/_impl_bdd_apply.rs, lines 65-184).                   *)
(*                                                                         *)
(* The locals of one call are kept in a record                             *)
(*   [output, nodes, tasks, task_stack, panic]                             *)
(* where panic is "" while the call runs normally and the message kind of  *)
(* the panic once one was raised.                                          *)
(***************************************************************************)
NoPanic == ""
LookupPanic == "Lookup table error"
PointerPanic == "Pointer cannot be allocated"
IncompletePanic == "this task must be completed"

\* The top of the task stack (Vec::last).
last(task_stack) == task_stack[Len(task_stack)]
pop(task_stack) == SubSeq(task_stack, 1, Len(task_stack) - 1)

\* l_var / r_var: None for a terminal.
var_of(p) == IF is_terminal(p) THEN None ELSE Some(variable_id(p))

min(x, y) == IF x <= y THEN x ELSE y
max(x, y) == IF x >= y THEN x ELSE y

\* Faulty variant: the greater of the two root variables is taken.
condition_var_max(l, r) ==
    LET l_var == var_of(l)
        r_var == var_of(r)
    IN  IF is_some(l_var) /\ is_some(r_var) THEN Some(max(unwrap(l_var), unwrap(r_var)))
        ELSE IF is_some(l_var) THEN l_var
        ELSE IF is_some(r_var) THEN r_var
        ELSE None

\* Faulty variant: when both roots are nodes the left one's variable is taken.
condition_var_left(l, r) ==
    LET l_var == var_of(l)
        r_var == var_of(r)
    IN  IF is_some(l_var) THEN l_var
        ELSE IF is_some(r_var) THEN r_var
        ELSE None

\* The variable the task (l, r) is conditioned on; None stands for the
\* (None, None) arm, which panics.
condition_var(l, r) ==
    LET l_var == var_of(l)
        r_var == var_of(r)
    IN  IF is_some(l_var) /\ is_some(r_var) THEN Some(min(unwrap(l_var), unwrap(r_var)))
        ELSE IF is_some(l_var) THEN l_var
        ELSE IF is_some(r_var) THEN r_var
        ELSE None

\* Faulty variant: the two children of a node are taken in the wrong order.
children_swapped(bdd, p, v) ==
    IF Some(v) = var_of(p)
    THEN LET n == node(bdd, v, node_index(p)) IN << high(n), low(n) >>
    ELSE << p, p >>

\* Faulty variant: the node of p is entered whatever its variable is.
children_any_variable(bdd, p, v) ==
    IF is_terminal(p) THEN << p, p >>
    ELSE LET n == node(bdd, variable_id(p), node_index(p)) IN << low(n), high(n) >>

\* (low, high) of the pointer p of bdd when it is conditioned on variable v:
\* the children of its node if p is a node of v, and (p, p) otherwise.
children(bdd, p, v) ==
    IF Some(v) = var_of(p)
    THEN LET n == node(bdd, v, node_index(p)) IN << low(n), high(n) >>
    ELSE << p, p >>

\* Faulty variant: a child whose right pointer is a node after the first of
\* its variable is not waited for; that pointer is taken as its result.
child_result_no_wait(op, tasks, l, r) ==
    LET t == lookup_table(op, as_bool(l), as_bool(r))
    IN  IF is_some(t) THEN Some(terminal(unwrap(t)))
        ELSE IF is_some(resolve(tasks, l, r)) THEN resolve(tasks, l, r)
        ELSE IF ~is_terminal(r) /\ node_index(r) >= 1 THEN Some(r)
        ELSE None

\* lookup_table(..).map(NodePointer::terminal).or_else(|| tasks.resolve(..))
child_result(op, tasks, l, r) ==
    LET t == lookup_table(op, as_bool(l), as_bool(r))
    IN  IF is_some(t) THEN Some(terminal(unwrap(t))) ELSE resolve(tasks, l, r)

\* Faulty variant: the test result_low == result_high is missing.
complete_task_no_skip(st, l, r, v, result_low, result_high) ==
    LET n == Node(result_low, result_high)
        existing == find(st.nodes, v, n)
    IN  IF is_some(existing)
        THEN [st EXCEPT !.tasks = save(st.tasks, l, r, unwrap(existing)),
                        !.task_stack = pop(st.task_stack)]
        ELSE LET pushed == push_node(st.output, v, n)
             IN  [st EXCEPT !.output = pushed.bdd,
                            !.nodes = insert(st.nodes, v, n, pushed.pointer),
                            !.tasks = save(st.tasks, l, r, pushed.pointer),
                            !.task_stack = pop(st.task_stack)]

\* Faulty variant: the node is pushed before the uniqueness table is asked.
complete_task_push_first(st, l, r, v, result_low, result_high) ==
    IF result_low = result_high
    THEN [st EXCEPT !.tasks = save(st.tasks, l, r, result_low),
                    !.task_stack = pop(st.task_stack)]
    ELSE LET n == Node(result_low, result_high)
             existing == find(st.nodes, v, n)
             pushed == push_node(st.output, v, n)
         IN  IF is_some(existing)
             THEN [st EXCEPT !.output = pushed.bdd,
                             !.tasks = save(st.tasks, l, r, unwrap(existing)),
                             !.task_stack = pop(st.task_stack)]
             ELSE [st EXCEPT !.output = pushed.bdd,
                             !.nodes = insert(st.nodes, v, n, pushed.pointer),
                             !.tasks = save(st.tasks, l, r, pushed.pointer),
                             !.task_stack = pop(st.task_stack)]

\* Lines 143-158: both children are resolved; the task is saved and popped.
complete_task(st, l, r, v, result_low, result_high) ==
    IF result_low = result_high
    THEN [st EXCEPT !.tasks = save(st.tasks, l, r, result_low),
                    !.task_stack = pop(st.task_stack)]
    ELSE LET n == Node(result_low, result_high)
             existing == find(st.nodes, v, n)
         IN  IF is_some(existing)
             THEN [st EXCEPT !.tasks = save(st.tasks, l, r, unwrap(existing)),
                             !.task_stack = pop(st.task_stack)]
             ELSE LET pushed == push_node(st.output, v, n)
                  IN  IF pushed.panics
                      THEN [st EXCEPT !.output = pushed.bdd, !.panic = PointerPanic]
                      ELSE [st EXCEPT !.output = pushed.bdd,
                                      !.nodes = insert(st.nodes, v, n, pushed.pointer),
                                      !.tasks = save(st.tasks, l, r, pushed.pointer),
                                      !.task_stack = pop(st.task_stack)]

\* Faulty variant: the task is pushed once more underneath its child tasks.
push_children_and_parent(task_stack, result_low, result_high, low_task, high_task) ==
    LET with_parent == Append(task_stack, last(task_stack))
        with_low == IF is_none(result_low) THEN Append(with_parent, low_task)
                    ELSE with_parent
    IN  IF is_none(result_high) THEN Append(with_low, high_task) ELSE with_low

\* Faulty variant: the missing child tasks are pushed high first.
push_children_high_first(task_stack, result_low, result_high, low_task, high_task) ==
    LET with_high == IF is_none(result_high) THEN Append(task_stack, high_task)
                     ELSE task_stack
    IN  IF is_none(result_low) THEN Append(with_high, low_task) ELSE with_high

\* Lines 159-166: the missing child tasks are pushed, low first.
push_children(task_stack, result_low, result_high, low_task, high_task) ==
    LET with_low == IF is_none(result_low) THEN Append(task_stack, low_task)
                    ELSE task_stack
    IN  IF is_none(result_high) THEN Append(with_low, high_task) ELSE with_low

\* Faulty variant: a task of two terminals is popped where it has to panic.
iteration_pop_terminals(left, right, op, st) ==
    LET l == last(st.task_stack)[1]
        r == last(st.task_stack)[2]
    IN  IF is_some(resolve(st.tasks, l, r))
        THEN [st EXCEPT !.task_stack = pop(st.task_stack)]
        ELSE LET cv == condition_var(l, r)
             IN  IF is_none(cv) THEN [st EXCEPT !.task_stack = pop(st.task_stack)]
                 ELSE LET v == unwrap(cv)
                          lc == children(left, l, v)
                          rc == children(right, r, v)
                          result_low == child_result(op, st.tasks, lc[1], rc[1])
                          result_high == child_result(op, st.tasks, lc[2], rc[2])
                      IN  IF is_some(result_low) /\ is_some(result_high)
                          THEN complete_task(st, l, r, v,
                                             unwrap(result_low), unwrap(result_high))
                          ELSE [st EXCEPT !.task_stack =
                                    push_children(st.task_stack, result_low, result_high,
                                                  << lc[1], rc[1] >>, << lc[2], rc[2] >>)]

\* One iteration of `while let Some(last) = task_stack.last()` (lines 97-169).
iteration(left, right, op, st) ==
    LET l == last(st.task_stack)[1]
        r == last(st.task_stack)[2]
    IN  IF is_some(resolve(st.tasks, l, r))
        THEN [st EXCEPT !.task_stack = pop(st.task_stack)]
        ELSE LET cv == condition_var(l, r)
             IN  IF is_none(cv) THEN [st EXCEPT !.panic = LookupPanic]
                 ELSE LET v == unwrap(cv)
                          lc == children(left, l, v)
                          rc == children(right, r, v)
                          result_low == child_result(op, st.tasks, lc[1], rc[1])
                          result_high == child_result(op, st.tasks, lc[2], rc[2])
                      IN  IF is_some(result_low) /\ is_some(result_high)
                          THEN complete_task(st, l, r, v,
                                             unwrap(result_low), unwrap(result_high))
                          ELSE [st EXCEPT !.task_stack =
                                    push_children(st.task_stack, result_low, result_high,
                                                  << lc[1], rc[1] >>, << lc[2], rc[2] >>)]

\* Lines 74-83: the roots are resolved by the lookup table alone.
\* Some(bdd) for the early return, None when the loop has to run.
early_return(left, right, op) ==
    LET t == lookup_table(op, as_bool(root(left)), as_bool(root(right)))
    IN  IF is_some(t) THEN Some(mk_const(unwrap(t))) ELSE None

early_panic(left, right, op) ==
    /\ is_none(lookup_table(op, as_bool(root(left)), as_bool(root(right))))
    /\ is_terminal(root(left)) /\ is_terminal(root(right))

\* Lines 87-95: the locals before the first iteration.
initial_locals(left, right) ==
    [output |-> mk_blank(FALSE),
     nodes |-> EmptyMap,
     tasks |-> EmptyMap,
     task_stack |-> << << root(left), root(right) >> >>,
     panic |-> NoPanic]

\* Faulty variant: the output is returned also when the result is a terminal.
finish_keep_output(left, right, st) ==
    set_root(st.output, unwrap(resolve(st.tasks, root(left), root(right))))

\* Faulty variant: the root of the output is never set.
finish_no_set_root(left, right, st) ==
    LET result == unwrap(resolve(st.tasks, root(left), root(right)))
    IN  IF is_terminal(result) THEN mk_const(unwrap(as_bool(result)))
        ELSE st.output

\* Lines 174-183: the Bdd returned after the loop (the root task is resolved).
finish(left, right, st) ==
    LET result == unwrap(resolve(st.tasks, root(left), root(right)))
    IN  IF is_terminal(result) THEN mk_const(unwrap(as_bool(result)))
        ELSE set_root(st.output, result)

RECURSIVE run_loop(_, _, _, _)
\* The while loop, run until the stack is empty or a panic is raised.
run_loop(left, right, op, st) ==
    IF st.task_stack = << >> \/ st.panic # NoPanic THEN st
    ELSE run_loop(left, right, op, iteration(left, right, op, st))

\* The whole call on inputs for which it returns.
apply(left, right, op) ==
    LET early == early_return(left, right, op)
    IN  IF is_some(early) THEN unwrap(early)
        ELSE finish(left, right, run_loop(left, right, op, initial_locals(left, right)))

(***************************************************************************)
(* The state machine: a client holding two Bdds a and b builds new ones    *)
(* with the public operations; a call of apply is run one loop iteration   *)
(* at a time.                                                              *)
(***************************************************************************)
VARIABLES
    a, b,           \* the two Bdds held by the client
    ops,            \* number of calls of not / a connective made so far
    pc,             \* "idle", "loop" (inside apply's loop), "done", "panic"
    left, right,    \* the arguments of the call in progress (or just returned)
    op,             \* its connective, or "not"
    output,         \* apply's local: the Bdd under construction
    nodes,          \* apply's local: NodeStorage
    tasks,          \* apply's local: TaskStorage
    task_stack,     \* apply's local: the explicit stack
    panic,          \* the panic raised by the call, NoPanic if none
    res,            \* the Bdd returned by the call
    codec,          \* the last call of the pointer codec and its outcome
    cache,          \* a Cache2 with the pairs inserted since new / clear
    op_cache,       \* the direct-mapped operation cache of a lossy apply call
    trail,          \* history: the loop states the apply call has been in
    table,          \* a NodeStorage and a NewNodeStorage given the same inserts
    reached,        \* history: the terminal pairs the call found no table entry for
    saved,          \* history: the tasks the call has saved a result for, in order
    fixed,          \* the locals of a call of u16_apply::apply_fixed
    script,         \* the variables of the formula the building client computes
    dynamic,        \* a DynamicOpCache and the pairs inserted into it
    spawn           \* the locals of a call of spawn_tasks_2

vars == << a, b, ops, pc, left, right, op, output, nodes, tasks, task_stack, panic, res,
           codec, cache, op_cache, trail, table, reached, saved, fixed, script,
           dynamic, spawn >>

\* The variables of the uniqueness tables, of the history of an apply call
\* of apply_fixed, of the building client, of DynamicOpCache and of
\* spawn_tasks_2.
side == << table, reached, saved, fixed, script, dynamic, spawn >>

\* The variables of the pointer codec, of Cache2 and of the lossy apply, and
\* the ones above.
aux == << codec, cache, op_cache, trail, side >>

locals == [output |-> output, nodes |-> nodes, tasks |-> tasks,
           task_stack |-> task_stack, panic |-> panic]

NoCall == "none"
Regs == {"a", "b"}

\* No call is in progress: the call variables hold their rest values.
AtRest ==
    /\ left = mk_false /\ right = mk_false /\ op = NoCall
    /\ output = mk_false /\ nodes = EmptyMap /\ tasks = EmptyMap
    /\ task_stack = << >> /\ panic = NoPanic /\ res = mk_false

\* No codec call was made, no Cache2 and no lossy operation cache exist.
NoCodec == [call |-> "none"]
NoCache == [capacity |-> 0]
NoTable == [inserts |-> 0]
NoFixed == [pc |-> "none"]
NoScript == [running |-> FALSE]
NoDynamic == [call |-> "none"]
NoSpawn == [pc |-> "none"]
AuxAtRest ==
    /\ codec = NoCodec /\ cache = NoCache /\ op_cache = NoCache /\ trail = {}
    /\ table = NoTable /\ reached = {} /\ saved = << >> /\ fixed = NoFixed
    /\ script = NoScript
    /\ dynamic = NoDynamic /\ spawn = NoSpawn

Init ==
    /\ a = mk_false /\ b = mk_false
    /\ ops = 0
    /\ pc = "idle"
    /\ AtRest
    /\ AuxAtRest

SetReg(dst, bdd) ==
    /\ a' = IF dst = "a" THEN bdd ELSE a
    /\ b' = IF dst = "b" THEN bdd ELSE b

Rest ==
    /\ left' = mk_false /\ right' = mk_false /\ op' = NoCall
    /\ output' = mk_false /\ nodes' = EmptyMap /\ tasks' = EmptyMap
    /\ task_stack' = << >> /\ panic' = NoPanic /\ res' = mk_false

\* Bdd::mk_const
MkConst(dst, value) ==
    /\ pc = "idle"
    /\ SetReg(dst, mk_const(value))
    /\ UNCHANGED << ops, pc, left, right, op, output, nodes, tasks, task_stack, panic, res >>
    /\ UNCHANGED aux

\* Bdd::mk_var
MkVar(dst, id, value) ==
    /\ pc = "idle"
    /\ SetReg(dst, mk_var(id, value))
    /\ UNCHANGED << ops, pc, left, right, op, output, nodes, tasks, task_stack, panic, res >>
    /\ UNCHANGED aux

\* The client exchanges its two Bdds (so that either can be the left argument).
Swap ==
    /\ pc = "idle"
    /\ a' = b /\ b' = a
    /\ UNCHANGED << ops, pc, left, right, op, output, nodes, tasks, task_stack, panic, res >>
    /\ UNCHANGED aux

\* Bdd::not, called on a.
CallNot ==
    /\ pc = "idle" /\ ops < MaxOps
    /\ ops' = ops + 1
    /\ left' = a /\ op' = "not"
    /\ res' = not(a)
    /\ pc' = "done"
    /\ UNCHANGED << a, b, right, output, nodes, tasks, task_stack, panic >>
    /\ UNCHANGED aux

\* Bdd::and / or / imp / iff / xor / and_not, called as a.o(b) or as a.o(a):
\* apply up to the loop (lines 73-95).
CallApply(o, y) ==
    /\ pc = "idle" /\ ops < MaxOps
    /\ ops' = ops + 1
    /\ LET l == a
           r == IF y = "a" THEN a ELSE b
           early == early_return(l, r, o)
           st == initial_locals(l, r)
       IN  /\ left' = l /\ right' = r /\ op' = o
           /\ IF is_some(early)
              THEN /\ res' = unwrap(early)
                   /\ pc' = "done"
                   /\ UNCHANGED << output, nodes, tasks, task_stack, panic >>
              ELSE IF early_panic(l, r, o)
              THEN /\ pc' = "panic" /\ panic' = LookupPanic
                   /\ UNCHANGED << output, nodes, tasks, task_stack, res >>
              ELSE /\ pc' = "loop"
                   /\ output' = st.output /\ nodes' = st.nodes /\ tasks' = st.tasks
                   /\ task_stack' = st.task_stack
                   /\ UNCHANGED << panic, res >>
    /\ UNCHANGED << a, b >>
    /\ UNCHANGED aux

\* One iteration of apply's loop.
Step ==
    /\ pc = "loop" /\ task_stack # << >>
    /\ LET st == iteration(left, right, op, locals)
       IN  /\ output' = st.output /\ nodes' = st.nodes /\ tasks' = st.tasks
           /\ task_stack' = st.task_stack /\ panic' = st.panic
           /\ pc' = IF st.panic # NoPanic THEN "panic" ELSE "loop"
    /\ UNCHANGED << a, b, ops, left, right, op, res >>
    /\ UNCHANGED aux

\* The loop has ended: apply returns (lines 174-183).
Return ==
    /\ pc = "loop" /\ task_stack = << >>
    /\ IF is_none(resolve(tasks, root(left), root(right)))
       THEN /\ pc' = "panic" /\ panic' = IncompletePanic
            /\ UNCHANGED res
       ELSE /\ pc' = "done" /\ res' = finish(left, right, locals)
            /\ UNCHANGED panic
    /\ UNCHANGED << a, b, ops, left, right, op, output, nodes, tasks, task_stack >>
    /\ UNCHANGED aux

\* The client keeps the returned Bdd in place of one of its two.
Store(dst) ==
    /\ pc = "done"
    /\ SetReg(dst, res)
    /\ pc' = "idle"
    /\ Rest
    /\ UNCHANGED ops
    /\ UNCHANGED aux

Next ==
    \/ \E dst \in Regs, value \in Bool : MkConst(dst, value)
    \/ \E dst \in Regs, id \in Variables, value \in Bool : MkVar(dst, id, value)
    \/ Swap
    \/ CallNot
    \/ \E o \in Ops, y \in Regs : CallApply(o, y)
    \/ Step
    \/ Return
    \/ \E dst \in Regs : Store(dst)

Spec == Init /\ [][Next]_vars

(***************************************************************************)
(* What a Bdd denotes, and the well-formedness predicates of the           *)
(* specification (section 3), used to state the properties below.          *)
(***************************************************************************)
Valuations == [Variables -> BOOLEAN]

RECURSIVE eval_pointer(_, _, _)
\* The terminal reached from p when variable v takes the branch val[v]
\* (low = false, high = true).
eval_pointer(bdd, p, val) ==
    IF is_terminal(p) THEN is_one(p)
    ELSE LET n == node(bdd, variable_id(p), node_index(p))
         IN  eval_pointer(bdd, IF val[variable_id(p)] THEN high(n) ELSE low(n), val)

eval(bdd, val) == eval_pointer(bdd, root(bdd), val)

SameFunction(x, y) == \A val \in Valuations : eval(x, val) = eval(y, val)

\* The stored nodes of bdd, as (variable, index) pairs.
Slots(bdd) ==
    UNION { { << i - 1, k - 1 >> : k \in 1 .. Len(bdd.vecs[i]) } : i \in 1 .. Len(bdd.vecs) }

slot_of(p) == << variable_id(p), node_index(p) >>

RECURSIVE closure(_, _)
\* The non-terminal pointers reachable from the set S of such pointers.
closure(bdd, S) ==
    LET next == UNION { { low(node(bdd, variable_id(p), node_index(p))),
                          high(node(bdd, variable_id(p), node_index(p))) } : p \in S }
        T == S \cup { c \in next : ~is_terminal(c) }
    IN  IF T = S THEN S ELSE closure(bdd, T)

ReachablePointers(bdd) ==
    IF is_terminal(root(bdd)) THEN {} ELSE closure(bdd, { root(bdd) })

\* Reduced: no node with low = high, no two nodes of a variable with the
\* same (low, high).
Reduced(bdd) ==
    \A i \in 1 .. Len(bdd.vecs) :
        \A k \in 1 .. Len(bdd.vecs[i]) :
            /\ low(bdd.vecs[i][k]) # high(bdd.vecs[i][k])
            /\ \A k2 \in 1 .. Len(bdd.vecs[i]) :
                  bdd.vecs[i][k2] = bdd.vecs[i][k] => k2 = k

\* Reachable: every stored node is reachable from the root.
AllReachable(bdd) ==
    Slots(bdd) \subseteq { slot_of(p) : p \in ReachablePointers(bdd) }

\* The child pointer c of a node of variable v points below v, to a stored node.
GoodChild(bdd, v, c) ==
    \/ is_terminal(c)
    \/ /\ is_non_trivial(c)
       /\ variable_id(c) > v
       /\ variable_id(c) < Len(bdd.vecs)
       /\ node_index(c) < Len(bdd.vecs[variable_id(c) + 1])

\* Ordered: children are terminals or nodes of strictly greater variables.
Ordered(bdd) ==
    \A i \in 1 .. Len(bdd.vecs) :
        \A k \in 1 .. Len(bdd.vecs[i]) :
            /\ GoodChild(bdd, i - 1, low(bdd.vecs[i][k]))
            /\ GoodChild(bdd, i - 1, high(bdd.vecs[i][k]))

\* The states in which a call has just returned its Bdd in res.
Returned == pc = "done"
ReturnedFrom(o) == pc = "done" /\ op = o
ReturnedApply == pc = "done" /\ op \in Ops

\* Both arguments and the result of the returned call have at least k nodes.
RichCall(k) ==
    /\ node_count(left) >= k + 2 /\ node_count(right) >= k + 2
    /\ node_count(res) >= k + 2

(***************************************************************************)
(* Properties.                                                             *)
(***************************************************************************)

\* C1: the Bdd returned by L.op(R), for each of the six connectives, takes
\* under every valuation the value of op on the values of L and R.
C1_ApplyDenotesConnective ==
    ReturnedApply =>
        \A val \in Valuations :
            eval(res, val) = op_value(op, eval(left, val), eval(right, val))

\* A call of imp on two different non-literal arguments has returned a
\* non-literal result.
C1_Witness == ReturnedFrom("imp") /\ RichCall(2) /\ left # right

\* C2: canonicity.  Two Bdds produced by the public operations are equal
\* (root and node vectors) exactly when they denote the same function, and
\* A.iff(B) is the constant true exactly when A = B.
C2_Canonicity ==
    /\ pc \in {"idle", "done"} =>
          \A x \in {a, b, res} : \A y \in {a, b, res} : (x = y) <=> SameFunction(x, y)
    /\ ReturnedFrom("iff") => (is_true(res) <=> left = right)

\* A connective has recomputed, from two different arguments, a Bdd of at
\* least two nodes that the client already holds.
C2_Witness ==
    /\ ReturnedApply /\ left # right
    /\ res = b /\ node_count(res) >= 4
    /\ tasks # EmptyMap

\* C3: reducedness.  No Bdd returned by a public operation has a node with
\* low = high or two nodes of one variable with the same (low, high).
C3_Reduced ==
    /\ pc = "idle" => Reduced(a) /\ Reduced(b)
    /\ Returned => Reduced(res)

\* apply has returned a Bdd with two nodes of the same variable.
C3_Witness ==
    /\ ReturnedApply
    /\ \E i \in 1 .. Len(res.vecs) : Len(res.vecs[i]) >= 2

\* C4: reachability.  Every node in the storage of the Bdd returned by apply
\* is reachable from its root, and every node pushed to the output during
\* the call is part of the returned Bdd.
C4_Reachable ==
    ReturnedApply =>
        /\ AllReachable(res)
        /\ Slots(output) \subseteq { slot_of(p) : p \in ReachablePointers(res) }

\* apply has returned a Bdd of at least four nodes after running its loop.
C4_Witness == ReturnedApply /\ node_count(res) >= 6 /\ Slots(output) # {}

\* C5: orderedness.  In every Bdd returned by a public operation each
\* non-terminal child of a node of variable v is a stored node of a
\* variable greater than v.
C5_Ordered ==
    /\ pc = "idle" => Ordered(a) /\ Ordered(b)
    /\ Returned => Ordered(res)

\* apply has returned a Bdd over all the variables, from a left argument
\* whose root variable is greater than the right one's.
C5_Witness ==
    /\ ReturnedApply
    /\ ~is_terminal(root(left)) /\ ~is_terminal(root(right))
    /\ variable_id(root(left)) > variable_id(root(right))
    /\ ~is_terminal(root(res))
    /\ \A v \in Variables : res.vecs[v + 1] # << >>

\* C6: a Bdd returned by not or by a connective has a non-terminal root or
\* is exactly mk_true / mk_false (empty storage vector); apply on two
\* constants returns the constant of the terminal table without entering
\* the loop, and when the root task resolves to a terminal no node was
\* pushed to the output.
C6_ConstantOrNonTerminalRoot ==
    /\ Returned => (is_terminal(root(res)) => res \in {mk_true, mk_false})
    /\ ReturnedApply /\ is_terminal(root(res)) => Slots(output) = {}
    /\ ReturnedApply /\ is_terminal(root(left)) /\ is_terminal(root(right)) =>
          /\ res = mk_const(op_value(op, is_one(root(left)), is_one(root(right))))
          /\ output = mk_false /\ tasks = EmptyMap

\* The loop of apply has resolved the root task of two different
\* non-literal arguments to a terminal.
C6_Witness ==
    /\ ReturnedApply /\ is_terminal(root(res))
    /\ left # right
    /\ node_count(left) >= 4 /\ node_count(right) >= 4
    /\ Cardinality(DOMAIN tasks) >= 3

\* C7: B.not().not() = B structurally, constants included.
C7_DoubleNegation == ReturnedFrom("not") => not(res) = left

\* not has been called on a Bdd of at least three nodes with both terminals.
C7_Witness ==
    /\ ReturnedFrom("not") /\ node_count(left) >= 5
    /\ \E i \in 1 .. Len(left.vecs) : \E k \in 1 .. Len(left.vecs[i]) :
          is_zero(low(left.vecs[i][k])) \/ is_zero(high(left.vecs[i][k]))
    /\ \E i \in 1 .. Len(left.vecs) : \E k \in 1 .. Len(left.vecs[i]) :
          is_one(low(left.vecs[i][k])) \/ is_one(high(left.vecs[i][k]))

\* The pointer p with the two terminal values exchanged.
OtherTerminal(p) == IF p = 0 THEN 32768 ELSE IF p = 32768 THEN 0 ELSE p

\* C8: for a non-constant B, B.not() has B's root and B's number of nodes
\* per variable, each child pointer is B's with the two terminals
\* exchanged, and it denotes the negation of B; not exchanges the two
\* constants; mk_var(v, true).not() = mk_var(v, false).
C8_NotFlipsTerminals ==
    ReturnedFrom("not") =>
        /\ is_terminal(root(left)) => res = mk_const(~is_one(root(left)))
        /\ ~is_terminal(root(left)) =>
              /\ root(res) = root(left)
              /\ Len(res.vecs) = Len(left.vecs)
              /\ \A i \in 1 .. Len(left.vecs) :
                    /\ Len(res.vecs[i]) = Len(left.vecs[i])
                    /\ \A k \in 1 .. Len(left.vecs[i]) :
                          /\ low(res.vecs[i][k]) = OtherTerminal(low(left.vecs[i][k]))
                          /\ high(res.vecs[i][k]) = OtherTerminal(high(left.vecs[i][k]))
        /\ \A val \in Valuations : eval(res, val) = ~eval(left, val)
        /\ \A v \in Variables : left = mk_var(v, TRUE) => res = mk_var(v, FALSE)

\* not has been called on a Bdd with a node whose children are a terminal
\* and a node.
C8_Witness ==
    /\ ReturnedFrom("not") /\ node_count(left) >= 4
    /\ \E i \in 1 .. Len(left.vecs) : \E k \in 1 .. Len(left.vecs[i]) :
          is_terminal(low(left.vecs[i][k])) # is_terminal(high(left.vecs[i][k]))

\* C9: A.and(B) = B.and(A), and likewise for or, iff and xor, as equality of
\* root and storage.
C9_Commutative ==
    ReturnedApply /\ op \in {"and", "or", "iff", "xor"} => res = apply(right, left, op)

\* xor has returned a Bdd with two nodes of one variable, from two different
\* non-literal arguments with different root variables.
C9_Witness ==
    /\ ReturnedFrom("xor") /\ RichCall(2) /\ left # right
    /\ variable_id(root(left)) # variable_id(root(right))
    /\ \E i \in 1 .. Len(res.vecs) : Len(res.vecs[i]) >= 2

\* C10: De Morgan.  A.and(B).not() = A.not().or(B.not()) structurally.
C10_DeMorgan ==
    ReturnedFrom("and") => not(res) = apply(not(left), not(right), "or")

\* and has returned a Bdd of at least three nodes from two different
\* non-literal arguments.
C10_Witness == ReturnedFrom("and") /\ RichCall(2) /\ left # right /\ node_count(res) >= 5

\* C11: with T = mk_true and F = mk_false, A.and(T) = T.and(A) = A,
\* A.and(F) = F.and(A) = F, A.or(T) = T.or(A) = T, A.or(F) = F.or(A) = A,
\* A.and(A) = A, A.or(A) = A, A.xor(A) = F, A.iff(A) = T and A.imp(A) = T,
\* as equality of root and storage.
C11_ConstantAndIdempotentLaws ==
    ReturnedApply =>
        /\ op = "and" /\ right = mk_true => res = left
        /\ op = "and" /\ left = mk_true => res = right
        /\ op = "and" /\ (left = mk_false \/ right = mk_false) => res = mk_false
        /\ op = "or" /\ (left = mk_true \/ right = mk_true) => res = mk_true
        /\ op = "or" /\ right = mk_false => res = left
        /\ op = "or" /\ left = mk_false => res = right
        /\ left = right =>
              /\ op \in {"and", "or"} => res = left
              /\ op = "xor" => res = mk_false
              /\ op \in {"iff", "imp"} => res = mk_true

\* A.or(F) has been computed by the loop for an A of at least three nodes.
C11_Witness ==
    /\ ReturnedFrom("or") /\ right = mk_false
    /\ node_count(left) >= 5 /\ tasks # EmptyMap

\* C12: a connective with a constant reproduces the in-place negation:
\* A.xor(T) = T.xor(A) = A.imp(F) = A.iff(F) = F.iff(A) = T.and_not(A) =
\* A.not(); A.xor(F) = F.xor(A) = A.iff(T) = T.iff(A) = T.imp(A) =
\* A.and_not(F) = A; F.imp(A) = A.imp(T) = T; A.and_not(T) = F.and_not(A) = F.
C12_ConstantOperandNegates ==
    ReturnedApply =>
        /\ op = "xor" /\ right = mk_true => res = not(left)
        /\ op = "xor" /\ left = mk_true => res = not(right)
        /\ op = "imp" /\ right = mk_false => res = not(left)
        /\ op = "iff" /\ right = mk_false => res = not(left)
        /\ op = "iff" /\ left = mk_false => res = not(right)
        /\ op = "and_not" /\ left = mk_true => res = not(right)
        /\ op = "xor" /\ right = mk_false => res = left
        /\ op = "xor" /\ left = mk_false => res = right
        /\ op = "iff" /\ right = mk_true => res = left
        /\ op = "iff" /\ left = mk_true => res = right
        /\ op = "imp" /\ left = mk_true => res = right
        /\ op = "and_not" /\ right = mk_false => res = left
        /\ op = "imp" /\ (left = mk_false \/ right = mk_true) => res = mk_true
        /\ op = "and_not" /\ (right = mk_true \/ left = mk_false) => res = mk_false

\* T.xor(A) has been computed by the loop for an A of at least three nodes
\* that holds both terminals.
C12_Witness ==
    /\ ReturnedFrom("xor") /\ left = mk_true
    /\ node_count(right) >= 5 /\ tasks # EmptyMap
    /\ \E i \in 1 .. Len(right.vecs) : \E k \in 1 .. Len(right.vecs[i]) :
          is_zero(low(right.vecs[i][k])) \/ is_zero(high(right.vecs[i][k]))
    /\ \E i \in 1 .. Len(right.vecs) : \E k \in 1 .. Len(right.vecs[i]) :
          is_one(low(right.vecs[i][k])) \/ is_one(high(right.vecs[i][k]))

\* The Bdd of v /\ ~w for variables v < w: a node (one, zero) at w, a node
\* (zero, that node) at v, the root at the node of v.
LiteralAndNotLiteral(v, w) ==
    Bdd(new(v, 0),
        [i \in 1 .. NUM_VECTORS |->
            IF i = w + 1 THEN << Node(one, zero) >>
            ELSE IF i = v + 1 THEN << Node(zero, new(w, 0)) >>
            ELSE << >>])

\* C13: A.and_not(B) = A.and(B.not()) structurally; for the literals
\* A = mk_var(v3, true) and B = mk_var(v4, true) (VariableId 2 and 3) both
\* are the four-node Bdd with (one, zero) at v4 and (zero, that node) at v3,
\* and so they are for every two literals of variables v < w.
C13_AndNotIsAndOfNot ==
    ReturnedFrom("and_not") =>
        /\ res = apply(left, not(right), "and")
        /\ \A v \in Variables : \A w \in Variables :
              v < w /\ left = mk_var(v, TRUE) /\ right = mk_var(w, TRUE) =>
                  res = LiteralAndNotLiteral(v, w) /\ node_count(res) = 4
        /\ apply(mk_var(2, TRUE), mk_var(3, TRUE), "and_not") = LiteralAndNotLiteral(2, 3)
        /\ apply(mk_var(2, TRUE), not(mk_var(3, TRUE)), "and") = LiteralAndNotLiteral(2, 3)
        /\ node_count(LiteralAndNotLiteral(2, 3)) = 4

\* and_not has returned a Bdd of at least three nodes from two different
\* non-literal arguments, the right one holding both terminals.
C13_Witness ==
    /\ ReturnedFrom("and_not") /\ RichCall(2) /\ left # right
    /\ node_count(res) >= 5
    /\ \E i \in 1 .. Len(right.vecs) : \E k \in 1 .. Len(right.vecs[i]) :
          is_zero(low(right.vecs[i][k])) \/ is_zero(high(right.vecs[i][k]))
    /\ \E i \in 1 .. Len(right.vecs) : \E k \in 1 .. Len(right.vecs[i]) :
          is_one(low(right.vecs[i][k])) \/ is_one(high(right.vecs[i][k]))

\* The third operands of the associativity law: the two Bdds the client
\* holds, the constants, the literals and the conjunctions of two literals.
ThirdOperands ==
    {a, b, mk_true, mk_false}
        \cup { mk_var(v, val) : v \in Variables, val \in Bool }
        \cup { apply(mk_var(v, TRUE), mk_var(w, TRUE), "and") :
                  v \in Variables, w \in Variables }

\* C14: iff is associative structurally: A.iff(B).iff(C) = A.iff(B.iff(C)).
C14_IffAssociative ==
    ReturnedFrom("iff") =>
        \A c \in ThirdOperands :
            apply(res, c, "iff") = apply(left, apply(right, c, "iff"), "iff")

\* iff has returned a Bdd of at least three nodes from two different
\* non-literal arguments with different root variables.
C14_Witness ==
    /\ ReturnedFrom("iff") /\ RichCall(2) /\ left # right
    /\ node_count(res) >= 5
    /\ variable_id(root(left)) # variable_id(root(right))

(***************************************************************************)
(* The pointer codec on its own: NodePointer::new is called with a         *)
(* variable and a node index, or a pointer is made from a raw word (impl   *)
(* From<u16>), and the pointer is dropped again.                           *)
(***************************************************************************)
\* The variables of the client and of its apply call.
main == << a, b, ops, pc, left, right, op, output, nodes, tasks, task_stack, panic, res >>

VariableIds == 0 .. MaxVariableId

\* The node indices (usize) given to NodePointer::new.
IndexValues ==
    (0 .. MaxSmallIndex)
        \cup { pow2(k) + d : k \in 6 .. 16, d \in (0 - IndexSlack) .. IndexSlack }

\* Line 70: 0b0111 - block_id is a u32 subtraction; it overflows for a low
\* block beyond the first eight blocks.
sub_overflows(variable) ==
    LET block_id == variable \div VAR_BLOCK_SIZE
    IN  (block_id \div 8) % 2 = 0 /\ block_id > 7

\* The outcome of NodePointer::new.  With overflow checks (a debug build) the
\* overflowing subtraction panics, without them it wraps (block_rank_of).
new_outcome(variable, index, overflow_checks) ==
    IF (overflow_checks /\ sub_overflows(variable)) \/ new_panics(variable, index)
    THEN [panics |-> TRUE, pointer |-> zero]
    ELSE [panics |-> FALSE, pointer |-> new(variable, index)]

\* NodePointer::new(VariableId(variable), index)
CodecNew ==
    /\ codec = NoCodec
    /\ \E variable \in VariableIds, index \in IndexValues, overflow_checks \in Bool :
          LET outcome == new_outcome(variable, index, overflow_checks)
          IN  codec' = [call |-> "new", variable |-> variable, index |-> index,
                        overflow_checks |-> overflow_checks,
                        panics |-> outcome.panics, pointer |-> outcome.pointer]
    /\ UNCHANGED << main, cache, op_cache, trail, side >>

\* NodePointer::from(value)
FromU16 ==
    /\ codec = NoCodec
    /\ \E value \in 0 .. (U16 - 1) :
          codec' = [call |-> "from", panics |-> FALSE, pointer |-> value]
    /\ UNCHANGED << main, cache, op_cache, trail, side >>

\* The pointer (or the panic) is dropped.
CodecDrop ==
    /\ codec # NoCodec
    /\ codec' = NoCodec
    /\ UNCHANGED << main, cache, op_cache, trail, side >>

CodecNext ==
    \/ CodecNew
    \/ FromU16
    \/ CodecDrop

CodecSpec == Init /\ [][CodecNext]_vars

\* The block rank of variable v and the pairs (v, i) the pointer can hold.
rank(v) == IF v < 32 THEN 7 - (v \div 4) ELSE (v \div 4) - 8
Addressable(v, i) == v <= 63 /\ i < pow2(12 - rank(v))

\* NodePointer::new has returned a pointer.
NewReturned == codec.call = "new" /\ ~codec.panics

\* C15: pointer round trip.  For every variable v in 0 .. 63 and every index
\* i < 2^(12 - rank(v)), new(v, i) returns a pointer whose variable_id is v
\* and whose node_index is i; no other addressable index of v and no other
\* variable with the index i gives the same pointer.
C15_PointerRoundTrip ==
    codec.call = "new" /\ Addressable(codec.variable, codec.index) =>
        /\ ~codec.panics
        /\ variable_id(codec.pointer) = codec.variable
        /\ node_index(codec.pointer) = codec.index
        /\ \A v \in 0 .. 63 :
              Addressable(v, codec.index) /\ new(v, codec.index) = codec.pointer =>
                  v = codec.variable
        /\ \A i \in IndexValues :
              Addressable(codec.variable, i) /\ new(codec.variable, i) = codec.pointer =>
                  i = codec.index

\* new(VariableId(3), 0b10101) has returned 0b10101_110_1000_0000.
C15_Witness ==
    /\ NewReturned /\ codec.variable = 3 /\ codec.index = 21
    /\ codec.pointer = 44672

\* C16: new(v, i) panics for every variable v >= 64 and every index i, and
\* never returns a pointer that decodes to another variable than v.
C16_NewRejectsVariablesBeyond63 ==
    codec.call = "new" =>
        /\ codec.variable >= 64 => codec.panics
        /\ ~codec.panics => variable_id(codec.pointer) = codec.variable

\* C17: for v in 0 .. 63, new(v, i) panics exactly when i >= 2^(12 - rank(v))
\* (4096 indices for variables 28 .. 35, 32 for variables 0 .. 3 and
\* 60 .. 63), and a pointer it returns decodes to the index i.
C17_NewRejectsUnaddressableIndex ==
    codec.call = "new" /\ codec.variable <= 63 =>
        /\ codec.panics <=> codec.index >= pow2(12 - rank(codec.variable))
        /\ ~codec.panics => node_index(codec.pointer) = codec.index
        /\ codec.variable \in 28 .. 35 => (codec.panics <=> codec.index >= 4096)
        /\ codec.variable \in (0 .. 3) \cup (60 .. 63) =>
              (codec.panics <=> codec.index >= 32)

\* new(VariableId(0), 0b100000) has panicked.
C17_Witness ==
    /\ codec.call = "new" /\ codec.panics
    /\ codec.variable = 0 /\ codec.index = 32

\* C18: a pointer made by new for a representable (v, i), i = 0 included,
\* is neither zero nor one, is no terminal and has no Boolean value; and
\* is_terminal holds of the two words of zero and one only.
C18_TerminalsDoNotAlias ==
    /\ codec.call = "new" /\ Addressable(codec.variable, codec.index) =>
          /\ ~codec.panics
          /\ codec.pointer # zero /\ codec.pointer # one
          /\ ~is_terminal(codec.pointer)
          /\ as_bool(codec.pointer) = None
    /\ codec.call = "from" \/ (codec.call = "new" /\ ~codec.panics) =>
          (is_terminal(codec.pointer) <=> codec.pointer \in {zero, one})

\* new(VariableId(28), 0) has returned the pointer whose only set bit is the
\* block marker.
C18_Witness ==
    /\ NewReturned /\ codec.variable = 28 /\ codec.index = 0
    /\ codec.pointer = 1

\* Line 132: 0b111 - block_rank is a u32 subtraction; it overflows for a
\* low-block word with more than seven trailing zeroes.
variable_id_underflows(p) ==
    LET block_rank == trailing_zeros(p)
        sans_rank == shr(p, block_rank + 1)
    IN  sans_rank % 2 = 0 /\ block_rank > 7

\* The word is new(v, i) for a variable v in 0 .. 63 and an addressable
\* index i.  new shifts the index left by total_shift = rank(v) + 4, so
\* the only index that can give the word is the word shifted back.
made_by_new(p) ==
    \E v \in 0 .. 63 :
        LET i == shr(p, rank(v) + 4)
        IN  Addressable(v, i) /\ new(v, i) = p

\* The 16-bit words is_pointer rejects.
Rejected == { w \in 0 .. (U16 - 1) : ~is_pointer(w) }

\* C37: is_pointer classifies 16-bit words exactly: it is true if and only
\* if the word is a terminal or new(v, i) for a variable v in 0 .. 63 and
\* an addressable index i; it rejects 124 words; and variable_id and
\* node_index do not underflow on a non-terminal word it accepts.
C37_IsPointerExact ==
    codec.call = "from" =>
        /\ is_pointer(codec.pointer) <=>
               (is_terminal(codec.pointer) \/ made_by_new(codec.pointer))
        /\ Cardinality(Rejected) = 124
        /\ is_non_trivial(codec.pointer) => ~variable_id_underflows(codec.pointer)

(***************************************************************************)
(* Cache2 (src/_impl_bdd/cache2.rs): the direct-mapped set of pointer      *)
(* pairs.  A u32 is kept as its two 16-bit halves << high, low >>; a       *)
(* BddPointer(u32) is given by its number.                                 *)
(***************************************************************************)
U32_MAX == << 65535, 65535 >>
\* 0x9e_37_79_b9
SEED32 == << 40503, 31161 >>

\* The 32-bit product of two 16-bit numbers, as << high, low >>.
mul16(x, y) ==
    LET x1 == x \div 256
        x0 == x % 256
        y1 == y \div 256
        y0 == y % 256
        mid == x1 * y0 + x0 * y1
        t == x0 * y0 + (mid % 256) * 256
    IN  << (x1 * y1 + (mid \div 256) + (t \div 65536)) % 65536, t % 65536 >>

\* u32::wrapping_mul
wrapping_mul(x, y) ==
    LET p == mul16(x[2], y[2])
    IN  << (p[1] + mul16(x[1], y[2])[2] + mul16(x[2], y[1])[2]) % 65536, p[2] >>

hash(value) == wrapping_mul(value, SEED32)

\* Faulty variant: the hash is used as the index without the reduction.
rem_unreduced(value, capacity) == value[2]

\* u32::rem by the capacity
rem(value, capacity) ==
    ((value[1] % capacity) * (65536 % capacity) + value[2]) % capacity

\* u32::from(l.0).shl(16) + u32::from(r.0): the shift drops the high half
\* of l, the sum wraps when overflow checks are off ...
pack(l, r) == << ((l % 65536) + (r \div 65536)) % 65536, r % 65536 >>

\* ... and panics when they are on.
pack_overflows(l, r) == (l % 65536) + (r \div 65536) >= 65536

\* The raw values of the BddPointers given to the cache.
PointerValues == {0, 1, 65535, 65536, 65537}

\* Cache2::new(capacity), for capacity > 0.
cache2_new(capacity, overflow_checks) ==
    [capacity |-> capacity,
     collisions |-> 0,
     items |-> [i \in 1 .. (capacity + 1) |-> U32_MAX],
     overflow_checks |-> overflow_checks,
     panics |-> FALSE,
     inserted |-> {},
     query |-> << >>,
     found |-> FALSE]

\* The slot of the pair (l, r), counted from 0.
slot_index(c, l, r) == rem(hash(pack(l, r)), c.capacity)

\* Cache2::contains
contains(c, l, r) == c.items[slot_index(c, l, r) + 1] = pack(l, r)

\* Cache2::insert
cache2_insert(c, l, r) == [c.items EXCEPT ![slot_index(c, l, r) + 1] = pack(l, r)]

\* Cache2::new
CacheNew ==
    /\ cache = NoCache
    /\ \E capacity \in 1 .. MaxCapacity, overflow_checks \in Bool :
          cache' = cache2_new(capacity, overflow_checks)
    /\ UNCHANGED << main, codec, op_cache, trail, side >>

\* The cache is in use: it exists and no call on it has panicked.
CacheLive == cache # NoCache /\ ~cache.panics

\* Cache2::clear
CacheClear ==
    /\ CacheLive
    /\ cache' = [cache EXCEPT !.collisions = 0,
                              !.items = [i \in 1 .. (cache.capacity + 1) |-> U32_MAX],
                              !.inserted = {},
                              !.query = << >>,
                              !.found = FALSE]
    /\ UNCHANGED << main, codec, op_cache, trail, side >>

\* Cache2::insert(l, r)
CacheInsert ==
    /\ CacheLive
    /\ \E l \in PointerValues, r \in PointerValues :
          /\ Cardinality(cache.inserted \cup {<< l, r >>}) <= MaxInserts
          /\ IF cache.overflow_checks /\ pack_overflows(l, r)
             THEN cache' = [cache EXCEPT !.panics = TRUE, !.query = << >>, !.found = FALSE]
             ELSE cache' = [cache EXCEPT !.items = cache2_insert(cache, l, r),
                                         !.inserted = cache.inserted \cup {<< l, r >>},
                                         !.query = << >>,
                                         !.found = FALSE]
    /\ UNCHANGED << main, codec, op_cache, trail, side >>

\* Cache2::contains(l, r); the pair asked for and the answer are kept.
CacheContains ==
    /\ CacheLive
    /\ \E l \in PointerValues, r \in PointerValues :
          IF cache.overflow_checks /\ pack_overflows(l, r)
          THEN cache' = [cache EXCEPT !.panics = TRUE, !.query = << >>, !.found = FALSE]
          ELSE cache' = [cache EXCEPT !.query = << l, r >>,
                                      !.found = contains(cache, l, r)]
    /\ UNCHANGED << main, codec, op_cache, trail, side >>

CacheNext ==
    \/ CacheNew
    \/ CacheClear
    \/ CacheInsert
    \/ CacheContains

CacheSpec == Init /\ [][CacheNext]_vars

\* C19: contains(l, r) returns true only if insert(l, r) was called with
\* exactly that pair since construction or the last clear.
C19_NoFalsePositives ==
    CacheLive /\ cache.query # << >> /\ cache.found => cache.query \in cache.inserted

\* C39: Cache2 never accesses its item vector out of bounds: the vector
\* has capacity + 1 items, and for every pair of pointer values the slot
\* index that contains and insert compute is smaller than its length.
C39_SlotIndexInRange ==
    CacheLive =>
        /\ DOMAIN cache.items = 1 .. (cache.capacity + 1)
        /\ \A l \in PointerValues, r \in PointerValues :
               /\ slot_index(cache, l, r) >= 0
               /\ slot_index(cache, l, r) < Len(cache.items)

\* A pair has been inserted into, and then found in, the slot of the
\* greatest index a cache of the greatest capacity uses; the one item
\* beyond it has never been written.
C39_Witness ==
    /\ CacheLive /\ cache.capacity = MaxCapacity
    /\ cache.query # << >> /\ cache.found
    /\ slot_index(cache, cache.query[1], cache.query[2]) = cache.capacity - 1
    /\ cache.items[cache.capacity + 1] = U32_MAX

(***************************************************************************)
(* apply with the direct-mapped operation cache in place of TaskStorage:   *)
(* a slot is empty or holds a task and its result; the slot of a task is   *)
(* Cache2's (hash of the packed pair, modulo the capacity), save           *)
(* overwrites the slot, resolve compares the stored task.                  *)
(***************************************************************************)
\* A cache of capacity slots, all empty.
lossy_new(capacity) ==
    [capacity |-> capacity, slots |-> [i \in 1 .. capacity |-> None]]

\* Lookup: the slot answers only for the pair stored in it.
lossy_resolve(c, l, r) ==
    LET slot == c.slots[slot_index(c, l, r) + 1]
    IN  IF is_some(slot) /\ unwrap(slot)[1] = l /\ unwrap(slot)[2] = r
        THEN Some(unwrap(slot)[3])
        ELSE None

\* Insert: the slot is overwritten, whatever it holds.
lossy_save(c, l, r, result) ==
    [c EXCEPT !.slots[slot_index(c, l, r) + 1] = Some(<< l, r, result >>)]

lossy_child_result(o, c, l, r) ==
    LET t == lookup_table(o, as_bool(l), as_bool(r))
    IN  IF is_some(t) THEN Some(terminal(unwrap(t))) ELSE lossy_resolve(c, l, r)

lossy_complete_task(st, l, r, v, result_low, result_high) ==
    IF result_low = result_high
    THEN [st EXCEPT !.tasks = lossy_save(st.tasks, l, r, result_low),
                    !.task_stack = pop(st.task_stack)]
    ELSE LET n == Node(result_low, result_high)
             existing == find(st.nodes, v, n)
         IN  IF is_some(existing)
             THEN [st EXCEPT !.tasks = lossy_save(st.tasks, l, r, unwrap(existing)),
                             !.task_stack = pop(st.task_stack)]
             ELSE LET pushed == push_node(st.output, v, n)
                  IN  IF pushed.panics
                      THEN [st EXCEPT !.output = pushed.bdd, !.panic = PointerPanic]
                      ELSE [st EXCEPT !.output = pushed.bdd,
                                      !.nodes = insert(st.nodes, v, n, pushed.pointer),
                                      !.tasks = lossy_save(st.tasks, l, r, pushed.pointer),
                                      !.task_stack = pop(st.task_stack)]

\* One iteration of the loop of apply, on locals whose tasks is the
\* direct-mapped cache.
lossy_iteration(l_bdd, r_bdd, o, st) ==
    LET l == last(st.task_stack)[1]
        r == last(st.task_stack)[2]
    IN  IF is_some(lossy_resolve(st.tasks, l, r))
        THEN [st EXCEPT !.task_stack = pop(st.task_stack)]
        ELSE LET cv == condition_var(l, r)
             IN  IF is_none(cv) THEN [st EXCEPT !.panic = LookupPanic]
                 ELSE LET v == unwrap(cv)
                          lc == children(l_bdd, l, v)
                          rc == children(r_bdd, r, v)
                          result_low == lossy_child_result(o, st.tasks, lc[1], rc[1])
                          result_high == lossy_child_result(o, st.tasks, lc[2], rc[2])
                      IN  IF is_some(result_low) /\ is_some(result_high)
                          THEN lossy_complete_task(st, l, r, v,
                                                   unwrap(result_low), unwrap(result_high))
                          ELSE [st EXCEPT !.task_stack =
                                    push_children(st.task_stack, result_low, result_high,
                                                  << lc[1], rc[1] >>, << lc[2], rc[2] >>)]

\* The Bdd returned after the loop.
lossy_finish(l_bdd, r_bdd, st) ==
    LET result == unwrap(lossy_resolve(st.tasks, root(l_bdd), root(r_bdd)))
    IN  IF is_terminal(result) THEN mk_const(unwrap(as_bool(result)))
        ELSE set_root(st.output, result)

lossy_locals == [output |-> output, nodes |-> nodes, tasks |-> op_cache,
                 task_stack |-> task_stack, panic |-> panic]

\* The arguments of the calls: the constants, the literals, and the Bdds
\* that and, or, xor make of two literals and of such a Bdd and a literal.
Literals == { mk_var(v, val) : v \in Variables, val \in Bool }
TwoLiterals ==
    { apply(mk_var(v, TRUE), mk_var(w, TRUE), o) :
         v \in Variables, w \in Variables, o \in {"and", "or", "xor"} }
InputBdds ==
    {mk_true, mk_false} \cup Literals \cup TwoLiterals
        \cup { apply(x, mk_var(NumVars - 1, TRUE), "xor") : x \in TwoLiterals }

\* What tells one state of the loop from another: the stack, the cache and
\* the number of nodes made so far (nodes and output only grow, by one node
\* at a time).
loop_state == << task_stack, op_cache, Cardinality(DOMAIN nodes) >>

\* A connective is called; apply up to the loop, with a fresh cache.
LossyCall ==
    /\ pc = "idle"
    /\ \E l \in InputBdds, r \in InputBdds, o \in Ops, capacity \in 1 .. MaxCapacity :
          LET early == early_return(l, r, o)
              st == initial_locals(l, r)
          IN  /\ left' = l /\ right' = r /\ op' = o
              /\ IF is_some(early)
                 THEN /\ res' = unwrap(early)
                      /\ pc' = "done"
                      /\ UNCHANGED << output, nodes, task_stack, panic, op_cache >>
                 ELSE IF early_panic(l, r, o)
                 THEN /\ pc' = "panic" /\ panic' = LookupPanic
                      /\ UNCHANGED << output, nodes, task_stack, res, op_cache >>
                 ELSE /\ pc' = "loop"
                      /\ output' = st.output /\ nodes' = st.nodes
                      /\ task_stack' = st.task_stack
                      /\ op_cache' = lossy_new(capacity)
                      /\ UNCHANGED << panic, res >>
    /\ UNCHANGED << a, b, ops, tasks, codec, cache, trail, side >>

\* One iteration of the loop.
LossyStep ==
    /\ pc = "loop" /\ task_stack # << >>
    /\ LET st == lossy_iteration(left, right, op, lossy_locals)
       IN  /\ output' = st.output /\ nodes' = st.nodes /\ op_cache' = st.tasks
           /\ task_stack' = st.task_stack /\ panic' = st.panic
           /\ pc' = IF st.panic # NoPanic THEN "panic" ELSE "loop"
    /\ trail' = trail \cup {loop_state}
    /\ UNCHANGED << a, b, ops, left, right, op, res, tasks, codec, cache, side >>

\* The loop has ended: apply returns.
LossyReturn ==
    /\ pc = "loop" /\ task_stack = << >>
    /\ IF is_none(lossy_resolve(op_cache, root(left), root(right)))
       THEN /\ pc' = "panic" /\ panic' = IncompletePanic
            /\ UNCHANGED res
       ELSE /\ pc' = "done" /\ res' = lossy_finish(left, right, lossy_locals)
            /\ UNCHANGED panic
    /\ UNCHANGED << a, b, ops, left, right, op, output, nodes, tasks, task_stack,
                    codec, cache, op_cache, trail, side >>

\* The caller drops the returned Bdd.
LossyDrop ==
    /\ pc = "done"
    /\ pc' = "idle"
    /\ Rest
    /\ op_cache' = NoCache
    /\ trail' = {}
    /\ UNCHANGED << a, b, ops, codec, cache, side >>

LossyNext ==
    \/ LossyCall
    \/ LossyStep
    \/ LossyReturn
    \/ LossyDrop

LossySpec == Init /\ [][LossyNext]_vars

none_pointer == 512

\* Some(p) for a pointer, None for a reserved value.
as_pointer(p) == IF is_pointer(p) THEN Some(p) ELSE None

\* Vec<NodePointer>: its length and its entries other than none_pointer.
EmptyVec == [len |-> 0, at |-> EmptyMap]

\* Vec::get(index).cloned()
vec_get(vector, index) ==
    IF index < vector.len
    THEN Some(IF index \in DOMAIN vector.at THEN vector.at[index] ELSE none_pointer)
    ELSE None

vec_insert(vector, index, pointer) ==
    [len |-> max(vector.len, index + 1),
     at |-> [i \in (DOMAIN vector.at) \cup {index} |->
                IF i = index THEN pointer ELSE vector.at[i]]]

\* A u64 as its eight bytes, the least significant first.
u64_bytes(n) ==
    [i \in 1 .. 8 |-> IF i = 1 THEN n % 256
                      ELSE IF i = 2 THEN (n \div 256) % 256
                      ELSE IF i = 3 THEN (n \div 65536) % 256
                      ELSE 0]

\* 0x0101010101010101, 0x8040201008040201 and 0x0102040810204081
SPREAD == << 1, 1, 1, 1, 1, 1, 1, 1 >>
DIAGONAL == << 1, 2, 4, 8, 16, 32, 64, 128 >>
GATHER == << 129, 64, 32, 16, 8, 4, 2, 1 >>

RECURSIVE column(_, _, _, _)
\* The sum of the products of the bytes x[i], y[k - i] from byte i on.
column(x, y, k, i) ==
    IF i > 7 THEN 0
    ELSE (IF k - i >= 0 /\ k - i <= 7 THEN x[i + 1] * y[k - i + 1] ELSE 0)
         + column(x, y, k, i + 1)

RECURSIVE wide_mul(_, _, _, _)
\* The sixteen bytes of the product x * y from byte k on.
wide_mul(x, y, k, carry) ==
    IF k = 16 THEN << >>
    ELSE LET t == column(x, y, k, 0) + carry
         IN  << t % 256 >> \o wide_mul(x, y, k + 1, t \div 256)

\* u64 * u64: the wrapped product and whether it overflows.
u64_mul(x, y) ==
    LET w == wide_mul(x, y, 0, 0)
    IN  [value |-> SubSeq(w, 1, 8), overflows |-> \E i \in 9 .. 16 : w[i] # 0]

\* x & 0x8040201008040201: bit i of byte i.
and_diagonal(x) == [i \in 1 .. 8 |-> ((x[i] \div DIAGONAL[i]) % 2) * DIAGONAL[i]]

RECURSIVE even_bits(_, _)
\* x & 0x5555 for x below 2^(2 k): every second bit from bit 0.
even_bits(x, k) == IF k = 0 THEN 0 ELSE (x % 2) + 4 * even_bits(x \div 4, k - 1)

\* (bits * 0x0101010101010101 & 0x8040201008040201) * 0x0102040810204081,
\* of which the sixteen bits from bit 48 on are kept: shifted by 49 and
\* masked by 0x5555, or shifted by 48 and masked by 0xAAAA, they are every
\* second bit of the result.
spread_bits(bits) ==
    LET first == u64_mul(u64_bytes(bits), SPREAD)
        second == u64_mul(and_diagonal(first.value), GATHER)
    IN  [value |-> second.value[7] + 256 * second.value[8],
         overflows |-> first.overflows \/ second.overflows]

\* interleave (lines 205-210); in a build with overflow checks a product
\* that does not fit 64 bits panics.
interleave(b1, b2) ==
    LET s1 == spread_bits(b1)
        s2 == spread_bits(b2)
    IN  [value |-> even_bits(s2.value \div 2, 8) + 2 * even_bits(s1.value \div 2, 8),
         overflows |-> s1.overflows \/ s2.overflows]

\* VarNodeStorage::new
var_storage_new(count) ==
    [constant |-> [i \in 1 .. 4 |-> none_pointer],
     terminal |-> [i \in 1 .. 4 |-> EmptyVec],
     equal_vars |-> [i \in 1 .. count |-> EmptyVec],
     other |-> EmptyMap]

\* The arm of the match on (low.as_bool(), high.as_bool()): which field of
\* the storage the key (low, high) belongs to, and the index in it.
key_place(lo, hi) ==
    LET l == as_bool(lo)
        h == as_bool(hi)
    IN  IF is_some(l) /\ is_some(h)
        THEN [field |-> "constant",
              index |-> (IF unwrap(l) THEN 2 ELSE 0) + (IF unwrap(h) THEN 1 ELSE 0),
              overflows |-> FALSE]
        ELSE IF is_some(l)
        THEN [field |-> "terminal", vector |-> IF unwrap(l) THEN 1 ELSE 0,
              index |-> node_index(hi), overflows |-> FALSE]
        ELSE IF is_some(h)
        THEN [field |-> "terminal", vector |-> IF unwrap(h) THEN 3 ELSE 2,
              index |-> node_index(lo), overflows |-> FALSE]
        ELSE IF variable_id(lo) # variable_id(hi)
        THEN [field |-> "other", overflows |-> FALSE]
        ELSE LET index == interleave(node_index(lo), node_index(hi))
             IN  [field |-> "equal_vars", vector |-> variable_id(lo),
                  index |-> index.value, overflows |-> index.overflows]

\* VarNodeStorage::find (lines 153-177)
var_find(storage, lo, hi) ==
    LET place == key_place(lo, hi)
        value ==
            CASE place.field = "constant" -> Some(storage.constant[place.index + 1])
              [] place.field = "terminal" ->
                    vec_get(storage.terminal[place.vector + 1], place.index)
              [] place.field = "other" ->
                    IF << lo, hi >> \in DOMAIN storage.other
                    THEN Some(storage.other[<< lo, hi >>]) ELSE None
              [] place.field = "equal_vars" ->
                    vec_get(storage.equal_vars[place.vector + 1], place.index)
    IN  IF is_some(value) THEN as_pointer(unwrap(value)) ELSE None

\* VarNodeStorage::insert (lines 179-201); for two children of different
\* variables the map is read and nothing is written.
var_insert(storage, lo, hi, result) ==
    LET place == key_place(lo, hi)
    IN  CASE place.field = "constant" ->
                [storage EXCEPT !.constant[place.index + 1] = result]
          [] place.field = "terminal" ->
                [storage EXCEPT !.terminal[place.vector + 1] =
                    vec_insert(storage.terminal[place.vector + 1], place.index, result)]
          [] place.field = "other" -> storage
          [] place.field = "equal_vars" ->
                [storage EXCEPT !.equal_vars[place.vector + 1] =
                    vec_insert(storage.equal_vars[place.vector + 1], place.index, result)]

\* NewNodeStorage::new, find and insert (lines 119-134)
new_storage(var_count) == [i \in 1 .. var_count |-> var_storage_new(var_count)]
new_find(storage, variable, n) == var_find(storage[variable + 1], low(n), high(n))
new_insert(storage, variable, n, pointer) ==
    [storage EXCEPT ![variable + 1] = var_insert(storage[variable + 1], low(n), high(n), pointer)]

\* The multiplications of interleave overflow for this key.
key_overflows(n) == key_place(low(n), high(n)).overflows

(***************************************************************************)
(* A caller of the two uniqueness tables: a NodeStorage and a              *)
(* NewNodeStorage are made together and given the same inserts and finds.  *)
(***************************************************************************)
\* The node indexes of the children of a key.
TableIndexes == {0, 1, 256}

\* The children of a key: the terminals and nodes of the variables after
\* the first.
ChildPointers ==
    {zero, one, new(1, 0)} \cup { new(NumVars - 1, i) : i \in TableIndexes }

\* The keys apply asks its uniqueness table for: the two children differ
\* and the variable is before the variables of the children.
TableKeys ==
    { << v, Node(lo, hi) >> : v \in Variables, lo \in ChildPointers, hi \in ChildPointers }
    \cap { k \in Variables \X (ChildPointers \X ChildPointers) :
             /\ low(k[2]) # high(k[2])
             /\ \A c \in {low(k[2]), high(k[2])} : is_terminal(c) \/ k[1] < variable_id(c) }

\* The pointer of the last insert for the key in the log, None without one.
RECURSIVE last_insert(_, _)
last_insert(log, key) ==
    IF log = << >> THEN None
    ELSE LET e == log[Len(log)]
         IN  IF << e[1], e[2] >> = key THEN Some(e[3])
             ELSE last_insert(SubSeq(log, 1, Len(log) - 1), key)

\* The caller makes the tables, inserts, asks for one key and drops them
\* (find leaves the tables as they are).
TableLive == table # NoTable /\ ~table.panics /\ table.call # "find"

\* NodeStorage::new and NewNodeStorage::new
TableNew ==
    /\ table = NoTable
    /\ \E overflow_checks \in Bool :
          table' = [inserts |-> 0, overflow_checks |-> overflow_checks,
                    nodes |-> EmptyMap, vars |-> new_storage(NumVars),
                    log |-> << >>, call |-> "new", key |-> << >>,
                    node_found |-> None, var_found |-> None, panics |-> FALSE]
    /\ UNCHANGED << main, codec, cache, op_cache, trail, reached, saved, fixed, script, dynamic, spawn >>

\* insert(variable, node, pointer) on both tables, with the pointer that
\* push_node gives to a new node.
TableInsert ==
    /\ TableLive
    /\ table.inserts < MaxInserts
    /\ \E key \in TableKeys :
          LET pointer == new(key[1], table.inserts)
          IN  table' =
                IF table.overflow_checks /\ key_overflows(key[2])
                THEN [table EXCEPT !.call = "insert", !.key = key, !.panics = TRUE]
                ELSE [table EXCEPT
                        !.call = "insert", !.key = key,
                        !.inserts = @ + 1,
                        !.nodes = insert(table.nodes, key[1], key[2], pointer),
                        !.vars = new_insert(table.vars, key[1], key[2], pointer),
                        !.log = Append(@, << key[1], key[2], pointer >>)]
    /\ UNCHANGED << main, codec, cache, op_cache, trail, reached, saved, fixed, script, dynamic, spawn >>

\* find(variable, node) on both tables.
TableFind ==
    /\ TableLive
    /\ \E key \in TableKeys :
          table' =
            IF table.overflow_checks /\ key_overflows(key[2])
            THEN [table EXCEPT !.call = "find", !.key = key, !.panics = TRUE]
            ELSE [table EXCEPT
                    !.call = "find", !.key = key,
                    !.node_found = find(table.nodes, key[1], key[2]),
                    !.var_found = new_find(table.vars, key[1], key[2])]
    /\ UNCHANGED << main, codec, cache, op_cache, trail, reached, saved, fixed, script, dynamic, spawn >>

\* The tables are dropped.
TableDrop ==
    /\ table # NoTable
    /\ table' = NoTable
    /\ UNCHANGED << main, codec, cache, op_cache, trail, reached, saved, fixed, script, dynamic, spawn >>

TableNext ==
    \/ TableNew
    \/ TableInsert
    \/ TableFind
    \/ TableDrop

TableSpec == Init /\ [][TableNext]_vars

\* The last call was an insert of a key of the given shape.
Inserted == table # NoTable /\ table.call = "insert"

\* C21: after insert(v, Node(low, high), p) has returned, find(v, Node(low,
\* high)) gives Some(p), on NodeStorage and on NewNodeStorage, whatever the
\* shape of the key (two terminals, one terminal, two nodes of one variable,
\* two nodes of different variables).
C21_InsertAlwaysWrites ==
    Inserted =>
        /\ ~table.panics
        /\ find(table.nodes, table.key[1], table.key[2])
             = last_insert(table.log, table.key)
        /\ new_find(table.vars, table.key[1], table.key[2])
             = last_insert(table.log, table.key)
        /\ is_some(last_insert(table.log, table.key))

\* The last call was a find that returned.
Found == table # NoTable /\ table.call = "find" /\ ~table.panics

\* C29: find(v, Node(low, high)) on NewNodeStorage returns Some(p) only if
\* the last insert for exactly that variable, low and high was of p; a key
\* that differs in the variable of a child, or in a node index beyond 8
\* bits, is never answered with the pointer of the other key.
C29_TableNoFalsePositives ==
    Found => (is_some(table.var_found)
                 => table.var_found = last_insert(table.log, table.key))

(***************************************************************************)
(* A caller of apply that passes Bdds of up to three variables and one of  *)
(* the six tables or a table with a gap; the call is run one loop          *)
(* iteration at a time, and what the call has done is recorded: the states *)
(* of the loop it has been in (trail), the pairs of terminals the table    *)
(* gave None for (reached) and the tasks given to tasks.save (saved).      *)
(***************************************************************************)
\* The locals that tell one state of the loop from another.
engine_state == << task_stack, tasks, nodes, output >>

\* The pairs of terminals among the given tasks that the table has no
\* entry for.
gaps(o, pairs) ==
    { t \in pairs : /\ is_terminal(t[1]) /\ is_terminal(t[2])
                    /\ is_none(lookup_table(o, as_bool(t[1]), as_bool(t[2]))) }

\* The two child tasks of the task on top of the stack (lines 101-133).
child_tasks(l_bdd, r_bdd, st) ==
    LET l == last(st.task_stack)[1]
        r == last(st.task_stack)[2]
        cv == condition_var(l, r)
    IN  IF is_some(resolve(st.tasks, l, r)) \/ is_none(cv) THEN {}
        ELSE LET lc == children(l_bdd, l, unwrap(cv))
                 rc == children(r_bdd, r, unwrap(cv))
             IN  {<< lc[1], rc[1] >>, << lc[2], rc[2] >>}

\* A table is passed to apply; apply up to the loop.
EngineCall ==
    /\ pc = "idle"
    /\ \E l \in InputBdds, r \in InputBdds, o \in Ops \cup PartialTables :
          LET early == early_return(l, r, o)
              st == initial_locals(l, r)
          IN  /\ left' = l /\ right' = r /\ op' = o
              /\ reached' = gaps(o, {<< root(l), root(r) >>})
              /\ IF is_some(early)
                 THEN /\ res' = unwrap(early)
                      /\ pc' = "done"
                      /\ UNCHANGED << output, nodes, tasks, task_stack, panic >>
                 ELSE IF early_panic(l, r, o)
                 THEN /\ pc' = "panic" /\ panic' = LookupPanic
                      /\ UNCHANGED << output, nodes, tasks, task_stack, res >>
                 ELSE /\ pc' = "loop"
                      /\ output' = st.output /\ nodes' = st.nodes /\ tasks' = st.tasks
                      /\ task_stack' = st.task_stack
                      /\ UNCHANGED << panic, res >>
    /\ UNCHANGED << a, b, ops, codec, cache, op_cache, trail, table, saved, fixed, script, dynamic, spawn >>

\* One iteration of the loop.
EngineStep ==
    /\ pc = "loop" /\ task_stack # << >>
    /\ LET st == iteration(left, right, op, locals)
       IN  /\ output' = st.output /\ nodes' = st.nodes /\ tasks' = st.tasks
           /\ task_stack' = st.task_stack /\ panic' = st.panic
           /\ pc' = IF st.panic # NoPanic THEN "panic" ELSE "loop"
           \* tasks.save is called where an unresolved task is popped
           /\ saved' = IF /\ is_none(resolve(tasks, last(task_stack)[1], last(task_stack)[2]))
                          /\ st.task_stack = pop(task_stack)
                       THEN Append(saved, last(task_stack)) ELSE saved
    /\ trail' = trail \cup {engine_state}
    /\ reached' = reached \cup gaps(op, child_tasks(left, right, locals))
    /\ UNCHANGED << a, b, ops, left, right, op, res, codec, cache, op_cache, table, fixed, script, dynamic, spawn >>

\* The loop has ended: apply returns.
EngineReturn ==
    /\ pc = "loop" /\ task_stack = << >>
    /\ IF is_none(resolve(tasks, root(left), root(right)))
       THEN /\ pc' = "panic" /\ panic' = IncompletePanic
            /\ UNCHANGED res
       ELSE /\ pc' = "done" /\ res' = finish(left, right, locals)
            /\ UNCHANGED panic
    /\ UNCHANGED << a, b, ops, left, right, op, output, nodes, tasks, task_stack, aux >>

\* The caller drops the returned Bdd.
EngineDrop ==
    /\ pc = "done"
    /\ pc' = "idle"
    /\ Rest
    /\ trail' = {} /\ reached' = {} /\ saved' = << >>
    /\ UNCHANGED << a, b, ops, codec, cache, op_cache, table, fixed, script, dynamic, spawn >>

EngineNext ==
    \/ EngineCall
    \/ EngineStep
    \/ EngineReturn
    \/ EngineDrop

EngineSpec == Init /\ [][EngineNext]_vars

\* The loop is deterministic: it ends if it never comes back to a state it
\* has been in.
NoRepeat == pc = "loop" => engine_state \notin trail

\* C22: once the table has given None for a pair of two terminals that
\* apply reaches, at the roots or as a child task, the call does not return
\* a Bdd and does not loop for ever: it ends in the panic "Lookup table
\* error".  With one of the six tables that panic is never raised.
C22_TableIncompletenessIsFatal ==
    /\ reached # {} =>
          /\ pc \in {"loop", "panic"}
          /\ pc = "panic" => panic = LookupPanic
          /\ NoRepeat
    /\ op \in Ops => panic # LookupPanic /\ reached = {}

\* A child task of two terminals without a table entry was reached after
\* the call had made a node, and the call has panicked.
C22_Witness ==
    /\ pc = "panic" /\ panic = LookupPanic
    /\ reached # {} /\ Slots(output) # {} /\ Len(task_stack) >= 2

\* C24: on Bdds that apply or mk_var have made and with one of the six
\* tables, the loop of apply never comes back to a state it has been in, so
\* it ends; it ends with an empty task stack and with a result for (L.root,
\* R.root) in the operation cache, and the panic "this task must be
\* completed" is not raised.
C24_ApplyTerminates ==
    op \in Ops =>
        /\ NoRepeat
        /\ panic # IncompletePanic
        /\ (pc = "loop" /\ task_stack = << >>)
              => is_some(resolve(tasks, root(left), root(right)))
        /\ (pc = "done" /\ trail # {})
              => /\ task_stack = << >>
                 /\ is_some(resolve(tasks, root(left), root(right)))

\* A call on two Bdds of two nodes or more has returned after eight or more
\* iterations of the loop.
C24_Witness ==
    /\ pc = "done" /\ op \in Ops /\ RichCall(2)
    /\ Cardinality(trail) >= 8 /\ task_stack = << >>

\* What an iteration of the loop may do to the stack and the task on top of
\* it: pop the task, with a result for it in the cache; or leave the stack
\* as it is and push, on top of it, child tasks of the task that are not
\* resolved, the task itself staying unresolved; or panic.
StackDiscipline ==
    (pc = "loop" /\ task_stack # << >>) =>
        LET top == last(task_stack)
            depth == Len(task_stack)
        IN  \/ /\ task_stack' = pop(task_stack)
               /\ is_some(resolve(tasks', top[1], top[2]))
            \/ /\ Len(task_stack') > depth
               /\ SubSeq(task_stack', 1, depth) = task_stack
               /\ is_none(resolve(tasks', top[1], top[2]))
               /\ \A i \in (depth + 1) .. Len(task_stack') :
                     /\ task_stack'[i] \in child_tasks(left, right, locals)
                     /\ is_none(child_result(op, tasks, task_stack'[i][1],
                                             task_stack'[i][2]))
            \/ /\ pc' = "panic"
               /\ task_stack' = task_stack

\* C25: a task leaves the task stack only in an iteration after which the
\* operation cache holds a result for it; while a child of it is unresolved
\* it stays where it is, the child tasks are pushed on top of it, and
\* nothing underneath the top of the stack is touched, so that it is on top
\* again once they are popped.
C25_StackDiscipline == [][StackDiscipline]_vars

\* The root task waits on the stack, unresolved, under two tasks or more,
\* while results of other tasks are in the cache.
C25_Witness ==
    /\ pc = "loop" /\ Len(task_stack) >= 3 /\ tasks # EmptyMap
    /\ task_stack[1] = << root(left), root(right) >>
    /\ is_none(resolve(tasks, root(left), root(right)))

\* The children of the nodes that the step appends to the output are
\* terminals or nodes the output had before the step.
EmittedAfterChildren ==
    pc = "loop" =>
        \A slot \in Slots(output') \ Slots(output) :
            LET n == node(output', slot[1], slot[2])
            IN  \A c \in {low(n), high(n)} :
                   is_terminal(c) \/ slot_of(c) \in Slots(output)

\* C26: when apply appends a node (v, low, high) to the output, each of low
\* and high is a terminal or a pointer to a node that is in the output
\* already; no node is emitted before both its children.
C26_ChildrenEmittedFirst == [][EmittedAfterChildren]_vars

\* The output holds a node with a child that is a node.
C26_Witness ==
    /\ pc = "loop"
    /\ \E slot \in Slots(output) :
          LET n == node(output, slot[1], slot[2])
          IN  ~is_terminal(low(n)) /\ ~is_terminal(high(n))

RECURSIVE post_order(_, _, _)
\* The depth-first traversal of the graph of bdd from the pointer p that
\* enters the high child before the low child and skips the nodes in done:
\* done followed by the nodes it finishes, in the order it finishes them.
post_order(bdd, p, done) ==
    IF is_terminal(p) \/ (\E i \in 1 .. Len(done) : done[i] = p) THEN done
    ELSE LET n == node(bdd, variable_id(p), node_index(p))
             after_high == post_order(bdd, high(n), done)
             after_low == post_order(bdd, low(n), after_high)
         IN  Append(after_low, p)

\* The k-th node of a variable that the traversal from the root finishes
\* has index k in the vector of the variable (counting from 0), and the
\* traversal finishes every node in the storage.
CanonicalLayout(bdd) ==
    LET order == post_order(bdd, root(bdd), << >>)
    IN  /\ Len(order) = node_count(bdd) - 2
        /\ \A i \in 1 .. Len(order) :
              node_index(order[i]) =
                 Cardinality({ j \in 1 .. (i - 1) :
                                 variable_id(order[j]) = variable_id(order[i]) })

\* C27: in every non-constant Bdd that apply returns, the node with index k
\* in the vector of variable v is the k-th node of v finished by the
\* depth-first post-order traversal of the result's graph from its root
\* that goes to the high child first; the layout is a function of the graph
\* of the result alone.
C27_CanonicalLayout ==
    (pc = "done" /\ ~is_terminal(root(res))) => CanonicalLayout(res)

\* apply has returned a Bdd with two nodes of one variable and a node that
\* two nodes point to.
C27_Witness ==
    /\ pc = "done" /\ trail # {} /\ left # right
    /\ ~is_terminal(root(res))
    /\ \E v \in Variables : Len(res.vecs[v + 1]) >= 2
    /\ \E s \in Slots(res), t \in Slots(res) :
          /\ s # t
          /\ \E c \in {low(node(res, s[1], s[2])), high(node(res, s[1], s[2]))} :
                /\ ~is_terminal(c)
                /\ c \in {low(node(res, t[1], t[2])), high(node(res, t[1], t[2]))}

\* What an iteration of the loop may do to the operation cache: every
\* entry stays as it is; the tasks saved so far are all different and are
\* the tasks the cache has an entry for.
WriteOnce ==
    pc = "loop" =>
        /\ \A k \in DOMAIN tasks : k \in DOMAIN tasks' /\ tasks'[k] = tasks[k]
        /\ \A i \in 1 .. Len(saved'), j \in 1 .. Len(saved') :
              i # j => saved'[i] # saved'[j]
        /\ DOMAIN tasks' = { saved'[i] : i \in 1 .. Len(saved') }

\* C30: during one call of apply tasks.save(l, r, p) is executed at most
\* once for each task (l, r), an entry of the operation cache is never
\* overwritten, and so every later tasks.resolve(l, r) gives that same p.
C30_OperationCacheWriteOnce == [][WriteOnce]_vars

\* The task on top of the stack was pushed twice and is found resolved:
\* its result was saved when its other copy was worked off.
C30_Witness ==
    /\ pc = "loop" /\ task_stack # << >> /\ Len(saved) >= 3
    /\ is_some(resolve(tasks, last(task_stack)[1], last(task_stack)[2]))

(***************************************************************************)
(* A client that builds a wide Bdd through the public operations.  Over    *)
(* the variables s0 .. s5 = base .. base + 5 and x1, x2, x3 = base + 6 ..  *)
(* base + 8 it computes                                                    *)
(*   L = s1 x2 + s2 x3 + s3 x2 x3 + s4 + x1 x2 + s5 x1 x3      (+ is xor)  *)
(* whose 32 cofactors by s1 .. s5 are 32 different functions that depend   *)
(* on x1, then R = s0 x1 x2 x3, and at last L + R, which has 64 different  *)
(* cofactors by s0 .. s5, all of them depending on x1.  Or it computes a   *)
(* chain of conjunctions and adds a literal to it.                         *)
(***************************************************************************)
\* The instructions: "lit" is b = mk_var(base + k), "and" is
\* b = b.and(mk_var(base + k)), "mov" is a = b, "xor" is a = a.xor(b).
Program ==
    << << "lit", 1 >>, << "and", 7 >>, << "mov", 0 >>,
       << "lit", 2 >>, << "and", 8 >>, << "xor", 0 >>,
       << "lit", 3 >>, << "and", 7 >>, << "and", 8 >>, << "xor", 0 >>,
       << "lit", 4 >>, << "xor", 0 >>,
       << "lit", 6 >>, << "and", 7 >>, << "xor", 0 >>,
       << "lit", 5 >>, << "and", 6 >>, << "and", 8 >>, << "xor", 0 >>,
       << "lit", 0 >>, << "and", 6 >>, << "and", 7 >>, << "and", 8 >>, << "xor", 0 >> >>

\* The places of s0: x1 is variable 57 (VariableId block 14, 64 indexes),
\* 60 or 61 (block 15, 32 indexes).
Bases == {51, 54, 55}

\* A second formula: the chain a = (s0 s1 s2 s3 s4) + s5, whose left argument
\* has one node for each of five variables.
ChainProgram ==
    << << "lit", 0 >>, << "and", 1 >>, << "and", 2 >>, << "and", 3 >>, << "and", 4 >>,
       << "mov", 0 >>, << "lit", 5 >>, << "xor", 0 >> >>

code == IF script.chain THEN ChainProgram ELSE Program
instruction == code[ops + 1]
Running(kind) ==
    /\ pc = "idle" /\ script.running /\ ops < Len(code)
    /\ instruction[1] = kind

\* The client chooses where the formula's variables are.
BuildStart ==
    /\ pc = "idle" /\ ~script.running
    /\ \E base \in Bases, chain \in Bool :
          script' = [running |-> TRUE, base |-> base, chain |-> chain]
    /\ UNCHANGED << main, codec, cache, op_cache, trail, table, reached, saved, fixed, dynamic, spawn >>

\* Bdd::mk_var
BuildMkVar ==
    /\ Running("lit")
    /\ b' = mk_var(script.base + instruction[2], TRUE)
    /\ ops' = ops + 1
    /\ UNCHANGED << a, pc, left, right, op, output, nodes, tasks, task_stack, panic, res, aux >>

\* a = b
BuildMove ==
    /\ Running("mov")
    /\ a' = b
    /\ ops' = ops + 1
    /\ UNCHANGED << b, pc, left, right, op, output, nodes, tasks, task_stack, panic, res, aux >>

\* b.and(literal) or a.xor(b): apply up to the loop.
BuildCall ==
    /\ Running("and") \/ Running("xor")
    /\ LET l == IF instruction[1] = "and" THEN b ELSE a
           r == IF instruction[1] = "and"
                THEN mk_var(script.base + instruction[2], TRUE) ELSE b
           o == instruction[1]
           early == early_return(l, r, o)
           st == initial_locals(l, r)
       IN  /\ left' = l /\ right' = r /\ op' = o
           /\ IF is_some(early)
              THEN /\ res' = unwrap(early)
                   /\ pc' = "done"
                   /\ UNCHANGED << output, nodes, tasks, task_stack, panic >>
              ELSE IF early_panic(l, r, o)
              THEN /\ pc' = "panic" /\ panic' = LookupPanic
                   /\ UNCHANGED << output, nodes, tasks, task_stack, res >>
              ELSE /\ pc' = "loop"
                   /\ output' = st.output /\ nodes' = st.nodes /\ tasks' = st.tasks
                   /\ task_stack' = st.task_stack
                   /\ UNCHANGED << panic, res >>
    /\ UNCHANGED << a, b, ops, aux >>

\* One iteration of the loop.
BuildStep ==
    /\ pc = "loop" /\ script.running /\ task_stack # << >>
    /\ LET st == iteration(left, right, op, locals)
       IN  /\ output' = st.output /\ nodes' = st.nodes /\ tasks' = st.tasks
           /\ task_stack' = st.task_stack /\ panic' = st.panic
           /\ pc' = IF st.panic # NoPanic THEN "panic" ELSE "loop"
    /\ UNCHANGED << a, b, ops, left, right, op, res, aux >>

\* The loop has ended: apply returns.
BuildReturn ==
    /\ pc = "loop" /\ script.running /\ task_stack = << >>
    /\ pc' = "done"
    /\ res' = finish(left, right, locals)
    /\ UNCHANGED << a, b, ops, left, right, op, output, nodes, tasks, task_stack, panic, aux >>

\* The returned Bdd becomes the new b (of and) or a (of xor).
BuildStore ==
    /\ pc = "done" /\ script.running
    /\ SetReg(IF op = "and" THEN "b" ELSE "a", res)
    /\ ops' = ops + 1
    /\ pc' = "idle"
    /\ Rest
    /\ UNCHANGED aux

\* The formula is computed: the client drops it.
BuildEnd ==
    /\ pc = "idle" /\ script.running /\ ops = Len(code)
    /\ a' = mk_false /\ b' = mk_false /\ ops' = 0
    /\ script' = NoScript
    /\ UNCHANGED << pc, left, right, op, output, nodes, tasks, task_stack, panic, res,
                    codec, cache, op_cache, trail, table, reached, saved, fixed, dynamic, spawn >>

BuildNext ==
    \/ BuildStart
    \/ BuildMkVar
    \/ BuildMove
    \/ BuildCall
    \/ BuildStep
    \/ BuildReturn
    \/ BuildStore
    \/ BuildEnd

BuildSpec == Init /\ [][BuildNext]_vars

\* The number of node indexes a pointer of the variable can hold.
capacity(variable) == pow2(12 - block_rank_of(variable))

\* The slots of the Bdd whose pointer does not decode to the slot.
Wrapped(bdd) ==
    { s \in Slots(bdd) : \/ variable_id(new(s[1], s[2])) # s[1]
                         \/ node_index(new(s[1], s[2])) # s[2] }

\* Two different slots of the Bdd have one pointer.
Aliased(bdd) ==
    \E s \in Slots(bdd), t \in Slots(bdd) : s # t /\ new(s[1], s[2]) = new(t[1], t[2])

\* C23: when the Bdd under construction has got more nodes of a variable
\* than the variable has node indexes, apply has panicked in push_node
\* with the panic of NodePointer::new; and in a Bdd that apply returns no
\* variable has more nodes than indexes, no two stored nodes have the same
\* pointer, and every node's pointer decodes to the node's variable and index.
C23_EncodingOverflowIsFatal ==
    /\ (\E s \in Slots(output) : s[2] >= capacity(s[1]))
          => pc = "panic" /\ panic = PointerPanic
    /\ pc = "done" =>
          /\ \A s \in Slots(res) : s[2] < capacity(s[1])
          /\ ~Aliased(res)
          /\ Wrapped(res) = {}

\* The 33rd node of variable 61 was pushed, and apply panicked.
C23_Witness ==
    /\ pc = "panic" /\ panic = PointerPanic
    /\ script.base = 55
    /\ Len(output.vecs[62]) = capacity(61) + 1

(***************************************************************************)
(* _impl_bdd/u16_apply.rs: apply_fixed, the apply engine with the fixed    *)
(* size operation cache.  It works on crate::Bdd, a single vector of       *)
(* nodes (variable, low link, high link) with the terminal 0 at index 0    *)
(* and the terminal 1 at index 1; a pointer is an index of the vector and  *)
(* the root is the last node.  A terminal node has the variable num_vars   *)
(* and links to itself.                                                    *)
(***************************************************************************)
flat_node(var, low_link, high_link) == [var |-> var, low_link |-> low_link, high_link |-> high_link]
flat_bdd(num_vars, node_seq) == [num_vars |-> num_vars, nodes |-> node_seq]

flat_mk_false(num_vars) == flat_bdd(num_vars, << flat_node(num_vars, 0, 0) >>)
flat_mk_true(num_vars) ==
    flat_bdd(num_vars, << flat_node(num_vars, 0, 0), flat_node(num_vars, 1, 1) >>)

flat_size(bdd) == Len(bdd.nodes)
flat_root_pointer(bdd) == Len(bdd.nodes) - 1
flat_var_of(bdd, p) == bdd.nodes[p + 1].var
flat_low_link_of(bdd, p) == bdd.nodes[p + 1].low_link
flat_high_link_of(bdd, p) == bdd.nodes[p + 1].high_link
flat_push_node(bdd, n) == flat_bdd(bdd.num_vars, Append(bdd.nodes, n))

flat_as_bool(p) == IF p = 0 THEN Some(FALSE) ELSE IF p = 1 THEN Some(TRUE) ELSE None
flat_from_bool(value) == IF value THEN 1 ELSE 0

\* The Bdd of a literal, and of v op w for two variables v < w.
flat_mk_var(num_vars, v, value) ==
    flat_push_node(flat_mk_true(num_vars),
                   IF value THEN flat_node(v, 0, 1) ELSE flat_node(v, 1, 0))

flat_mk_pair(num_vars, v, w, o) ==
    LET w_true == flat_node(w, 0, 1)
        w_false == flat_node(w, 1, 0)
        base == flat_mk_true(num_vars)
    IN  IF o = "and"
        THEN flat_push_node(flat_push_node(base, w_true), flat_node(v, 0, 2))
        ELSE IF o = "or"
        THEN flat_push_node(flat_push_node(base, w_true), flat_node(v, 2, 1))
        ELSE flat_push_node(flat_push_node(flat_push_node(base, w_true), w_false),
                            flat_node(v, 2, 3))

FlatInputs ==
    { flat_mk_var(NumVars, v, value) : v \in Variables, value \in Bool }
    \cup { flat_mk_pair(NumVars, vw[1], vw[2], o) :
             vw \in { p \in Variables \X Variables : p[1] < p[2] },
             o \in {"and", "or", "xor"} }

\* StaticOpCache<X>: X slots of u16, u16::MAX in an empty one.  The slots
\* that were set are kept.
U16_MAX == 65535
static_new(l_bdd, r_bdd, x) ==
    [l_size |-> flat_size(l_bdd), r_size |-> flat_size(r_bdd), storage |-> EmptyMap,
     panics |-> \/ flat_size(l_bdd) * flat_size(r_bdd) > x
                \/ flat_size(l_bdd) * flat_size(r_bdd) >= U16_MAX]
static_index(c, l, r) == l * c.r_size + r
static_slot(c, index) == IF index \in DOMAIN c.storage THEN c.storage[index] ELSE U16_MAX
static_get(c, l, r) ==
    LET x == static_slot(c, static_index(c, l, r))
    IN  IF x = U16_MAX THEN None ELSE Some(x)
static_contains(c, l, r) == static_slot(c, static_index(c, l, r)) # U16_MAX
static_set(c, l, r, value) ==
    LET index == static_index(c, l, r)
    IN  [c EXCEPT !.storage =
            [i \in DOMAIN c.storage \cup {index} |->
                IF i = index THEN value ELSE c.storage[i]]]

\* Lines 141-146: the table's answer, or else the cache's.
fixed_result(o, c, l, r) ==
    LET t == lookup_table(o, flat_as_bool(l), flat_as_bool(r))
    IN  IF is_some(t) THEN Some(flat_from_bool(unwrap(t))) ELSE static_get(c, l, r)

\* Lines 108-119: the locals of apply_fixed before the loop, with the cache
\* that apply has made (lines 91-95).
fixed_locals(l_bdd, r_bdd, o) ==
    [pc |-> "loop", left |-> l_bdd, right |-> r_bdd, op |-> o,
     is_empty |-> TRUE,
     result |-> flat_mk_true(l_bdd.num_vars),
     op_cache |-> static_new(l_bdd, r_bdd, 1024),
     stack |-> << << flat_root_pointer(l_bdd), flat_root_pointer(r_bdd) >> >>]

\* Faulty variant: the task is pushed again on the stack it still is on.
fixed_push_no_pop(stack, new_low, new_high, low_task, high_task) ==
    stack \o << last(stack) >>
          \o (IF is_none(new_low) THEN << low_task >> ELSE << >>)
          \o (IF is_none(new_high) THEN << high_task >> ELSE << >>)

\* Lines 121 and 160-167: the popped task is pushed again, and on it the
\* child tasks that have no result.
fixed_push(stack, new_low, new_high, low_task, high_task) ==
    pop(stack) \o << last(stack) >>
               \o (IF is_none(new_low) THEN << low_task >> ELSE << >>)
               \o (IF is_none(new_high) THEN << high_task >> ELSE << >>)

\* Lines 121-169: one iteration of the loop, the pop included.
fixed_iteration(f) ==
    LET l == last(f.stack)[1]
        r == last(f.stack)[2]
        popped == pop(f.stack)
        l_v == flat_var_of(f.left, l)
        r_v == flat_var_of(f.right, r)
        decision_var == min(l_v, r_v)
        l_low == IF l_v # decision_var THEN l ELSE flat_low_link_of(f.left, l)
        l_high == IF l_v # decision_var THEN l ELSE flat_high_link_of(f.left, l)
        r_low == IF r_v # decision_var THEN r ELSE flat_low_link_of(f.right, r)
        r_high == IF r_v # decision_var THEN r ELSE flat_high_link_of(f.right, r)
        new_low == fixed_result(f.op, f.op_cache, l_low, r_low)
        new_high == fixed_result(f.op, f.op_cache, l_high, r_high)
    IN  IF static_contains(f.op_cache, l, r)
        THEN [f EXCEPT !.stack = popped]
        ELSE IF is_some(new_low) /\ is_some(new_high)
        THEN LET lo == unwrap(new_low)
                 hi == unwrap(new_high)
                 pushed == flat_push_node(f.result, flat_node(decision_var, lo, hi))
             IN  [f EXCEPT
                    !.stack = popped,
                    !.is_empty = f.is_empty /\ ~(lo = 1 \/ hi = 1),
                    !.result = IF lo = hi THEN f.result ELSE pushed,
                    !.op_cache = IF lo = hi
                                 THEN static_set(f.op_cache, l, r, lo)
                                 ELSE static_set(f.op_cache, l, r, flat_root_pointer(pushed))]
        ELSE [f EXCEPT !.stack =
                fixed_push(f.stack, new_low, new_high,
                           << l_low, r_low >>, << l_high, r_high >>)]

\* u16_apply::apply with a table: apply_fixed up to the loop.
FixedCall ==
    /\ fixed = NoFixed
    /\ \E l \in FlatInputs, r \in FlatInputs, o \in Ops :
          fixed' = fixed_locals(l, r, o)
    /\ UNCHANGED << main, codec, cache, op_cache, trail, table, reached, saved, script, dynamic, spawn >>

\* One iteration of the loop.
FixedStep ==
    /\ fixed.pc = "loop" /\ fixed.stack # << >>
    /\ fixed' = fixed_iteration(fixed)
    /\ UNCHANGED << main, codec, cache, op_cache, trail, table, reached, saved, script, dynamic, spawn >>

\* Lines 172-176: the loop has ended, apply_fixed returns.
FixedReturn ==
    /\ fixed.pc = "loop" /\ fixed.stack = << >>
    /\ fixed' = [fixed EXCEPT !.pc = "done",
                              !.result = IF fixed.is_empty
                                         THEN flat_mk_false(fixed.left.num_vars)
                                         ELSE fixed.result]
    /\ UNCHANGED << main, codec, cache, op_cache, trail, table, reached, saved, script, dynamic, spawn >>

\* The caller drops the returned Bdd.
FixedDrop ==
    /\ fixed.pc = "done"
    /\ fixed' = NoFixed
    /\ UNCHANGED << main, codec, cache, op_cache, trail, table, reached, saved, script, dynamic, spawn >>

FixedNext ==
    \/ FixedCall
    \/ FixedStep
    \/ FixedReturn
    \/ FixedDrop

FixedSpec == Init /\ [][FixedNext]_vars

\* C28: a Bdd returned by apply_fixed has no two nodes with the same
\* variable, low link and high link.
C28_FixedEngineUniqueness ==
    fixed.pc = "done" =>
        \A i \in 1 .. Len(fixed.result.nodes), j \in 1 .. Len(fixed.result.nodes) :
            fixed.result.nodes[i] = fixed.result.nodes[j] => i = j

\* The variables that have a node in the Bdd.
variables_of(bdd) == { v \in 0 .. (Len(bdd.vecs) - 1) : bdd.vecs[v + 1] # << >> }

\* C31 as stated: inside apply's loop the task stack holds no more entries
\* than the two arguments have nodes (node_count, the terminals included).
C31_StackWithinNodeCounts ==
    pc = "loop" => Len(task_stack) <= node_count(left) + node_count(right)

\* C31, amended: inside apply's loop, with a table that is complete on
\* pairs of terminals, the task stack holds at most 2 V - 1 entries, V the
\* number of variables that have a node in the left or the right argument
\* (one entry for the root task and at most two for each variable below it).
C31_StackWithinTwiceVariables ==
    pc = "loop" =>
        Len(task_stack) <= 2 * Cardinality(variables_of(left) \cup variables_of(right)) - 1

\* The chain of five variables plus a literal: eleven entries for ten nodes.
C31_Witness ==
    /\ pc = "loop" /\ script.chain /\ op = "xor"
    /\ node_count(left) + node_count(right) = 10
    /\ Len(task_stack) = 11

SEED64 == << 149, 10, 34, 39, 183, 193, 124, 81 >>

\* usize::MAX in hashes: no item.
NoItem == -1

\* u64::from(l).shl(32) + u64::from(r), for l and r below 2^16.
packed64(l, r) == << r % 256, r \div 256, 0, 0, l % 256, l \div 256, 0, 0 >>

\* hash (lines 116-119)
hash64(l, r) == u64_mul(packed64(l, r), SEED64).value

RECURSIVE rem64(_, _, _)
\* The u64 of the bytes x[k .. 8] modulo n.
rem64(x, k, n) == IF k > 8 THEN 0 ELSE (x[k] + 256 * rem64(x, k + 1, n)) % n

\* The pairs given to the cache, and their hashes.
DynPairs == (0 .. 1) \X (0 .. MaxPointer)
HashOf == [value \in DynPairs |-> hash64(value[1], value[2])]

\* (hash(l, r) as usize) % len, as an index from 1.
hash_slot(value, len) == rem64(HashOf[value], 1, len) + 1

\* (u32, u32) < (u32, u32)
pair_less(x, y) == x[1] < y[1] \/ (x[1] = y[1] /\ x[2] < y[2])

RECURSIVE merge(_, _)
\* merge (lines 126-148)
merge(l_items, r_items) ==
    IF l_items = << >> THEN r_items
    ELSE IF r_items = << >> THEN l_items
    ELSE IF pair_less(Head(l_items), Head(r_items))
    THEN << Head(l_items) >> \o merge(Tail(l_items), r_items)
    ELSE << Head(r_items) >> \o merge(l_items, Tail(r_items))

RECURSIVE sort(_)
\* [T]::sort of a slice of pairs.
sort(item_seq) ==
    IF item_seq = << >> THEN << >>
    ELSE LET least == CHOOSE x \in { item_seq[i] : i \in 1 .. Len(item_seq) } :
                         \A i \in 1 .. Len(item_seq) : ~pair_less(item_seq[i], x)
             at == CHOOSE i \in 1 .. Len(item_seq) : item_seq[i] = least
         IN  << least >> \o sort(SubSeq(item_seq, 1, at - 1)
                                 \o SubSeq(item_seq, at + 1, Len(item_seq)))

\* DynamicOpCache::new
dyn_new(size) ==
    [items |-> << >>,
     hashes |-> [i \in 1 .. size |-> NoItem],
     collisions_since_rehash |-> 0,
     index_after_last_sorted_entry |-> 0]

\* DynamicOpCache::contains (lines 43-47); indexes of items are from 0.
dyn_contains(c, l, r) ==
    LET possible_index == c.hashes[hash_slot(<< l, r >>, Len(c.hashes))]
    IN  possible_index # NoItem /\ c.items[possible_index + 1] = << l, r >>

RECURSIVE rehash_loop(_, _, _)
\* Lines 103-109: the items from item i on are entered in the new table.
rehash_loop(c, hashes, i) ==
    IF i >= Len(c.items) THEN [c EXCEPT !.hashes = hashes]
    ELSE LET slot == hash_slot(c.items[i + 1], Len(hashes))
             counted == IF hashes[slot] # NoItem
                        THEN [c EXCEPT !.collisions_since_rehash = @ + 1] ELSE c
         IN  rehash_loop(counted, [hashes EXCEPT ![slot] = i], i + 1)

\* Faulty variant: the new table is as long as the old one and the items
\* are entered in it as the old table had them.
rehash_keep_hashes(c) ==
    [c EXCEPT !.items = merge(SubSeq(c.items, 1, c.index_after_last_sorted_entry),
                              sort(SubSeq(c.items, c.index_after_last_sorted_entry + 1,
                                          Len(c.items)))),
              !.index_after_last_sorted_entry = Len(c.items),
              !.collisions_since_rehash = 0]

\* DynamicOpCache::rehash (lines 90-111)
rehash(c) ==
    LET sorted == merge(SubSeq(c.items, 1, c.index_after_last_sorted_entry),
                        sort(SubSeq(c.items, c.index_after_last_sorted_entry + 1,
                                    Len(c.items))))
        merged == [c EXCEPT !.items = sorted,
                            !.index_after_last_sorted_entry = Len(sorted),
                            !.collisions_since_rehash = 0]
    IN  rehash_loop(merged, [i \in 1 .. (2 * Len(c.hashes)) |-> NoItem], 0)

\* Faulty variant: at a collision the slot keeps the index it has.
dyn_insert_keep_first(c, l, r) ==
    LET value == << l, r >>
        slot == hash_slot(value, Len(c.hashes))
        possible_collision_at == c.hashes[slot]
    IN  IF possible_collision_at # NoItem /\ c.items[possible_collision_at + 1] = value
        THEN [cache |-> c, returns |-> FALSE, rehashes |-> FALSE,
              collisions |-> c.collisions_since_rehash, stored |-> Len(c.items)]
        ELSE LET collisions == IF possible_collision_at # NoItem
                               THEN c.collisions_since_rehash + 1
                               ELSE c.collisions_since_rehash
                 pushed == [c EXCEPT !.items = Append(c.items, value),
                                     !.hashes[slot] = IF possible_collision_at # NoItem
                                                      THEN possible_collision_at
                                                      ELSE Len(c.items),
                                     !.collisions_since_rehash = collisions]
                 full == collisions > Len(pushed.items) \div 4
             IN  [cache |-> IF full THEN rehash(pushed) ELSE pushed,
                  returns |-> TRUE, rehashes |-> full,
                  collisions |-> collisions, stored |-> Len(pushed.items)]

\* Faulty variant: the stored item is not compared with the pair.
dyn_insert_no_compare(c, l, r) ==
    LET slot == hash_slot(<< l, r >>, Len(c.hashes))
    IN  IF c.hashes[slot] # NoItem
        THEN [cache |-> c, returns |-> FALSE, rehashes |-> FALSE,
              collisions |-> c.collisions_since_rehash, stored |-> Len(c.items)]
        ELSE [cache |-> [c EXCEPT !.items = Append(c.items, << l, r >>),
                                  !.hashes[slot] = Len(c.items)],
              returns |-> TRUE, rehashes |-> FALSE,
              collisions |-> c.collisions_since_rehash, stored |-> Len(c.items) + 1]

\* DynamicOpCache::insert (lines 67-88): the cache after the call, what the
\* call returns, whether it has called rehash, and the collisions and the
\* items counted when it came to line 83.
dyn_insert(c, l, r) ==
    LET value == << l, r >>
        slot == hash_slot(value, Len(c.hashes))
        possible_collision_at == c.hashes[slot]
    IN  IF possible_collision_at # NoItem /\ c.items[possible_collision_at + 1] = value
        THEN [cache |-> c, returns |-> FALSE, rehashes |-> FALSE,
              collisions |-> c.collisions_since_rehash, stored |-> Len(c.items)]
        ELSE LET collisions == IF possible_collision_at # NoItem
                               THEN c.collisions_since_rehash + 1
                               ELSE c.collisions_since_rehash
                 pushed == [c EXCEPT !.items = Append(c.items, value),
                                     !.hashes[slot] = Len(c.items),
                                     !.collisions_since_rehash = collisions]
                 full == collisions > Len(pushed.items) \div 4
             IN  [cache |-> IF full THEN rehash(pushed) ELSE pushed,
                  returns |-> TRUE, rehashes |-> full,
                  collisions |-> collisions, stored |-> Len(pushed.items)]

\* DynamicOpCache::new(capacity)
DynNew ==
    /\ dynamic = NoDynamic
    /\ \E size \in 1 .. MaxCapacity :
          dynamic' = [call |-> "new", cache |-> dyn_new(size),
                      inserted |-> {}, earlier |-> {},
                      query |-> << >>, returns |-> FALSE, rehashes |-> FALSE,
                      collisions |-> 0, stored |-> 0]
    /\ UNCHANGED << main, codec, cache, op_cache, trail, table, reached, saved, fixed,
                    script, spawn >>

\* The cache is in use and the caller has not asked it anything yet.
DynLive == dynamic # NoDynamic /\ dynamic.call # "contains"

\* DynamicOpCache::insert(l, r)
DynInsert ==
    /\ DynLive
    /\ Len(dynamic.cache.items) < MaxItems
    /\ \E value \in DynPairs :
          LET done == dyn_insert(dynamic.cache, value[1], value[2])
          IN  dynamic' = [call |-> "insert", cache |-> done.cache,
                          inserted |-> dynamic.inserted \cup {value},
                          earlier |-> dynamic.inserted,
                          query |-> value, returns |-> done.returns,
                          rehashes |-> done.rehashes,
                          collisions |-> done.collisions, stored |-> done.stored]
    /\ UNCHANGED << main, codec, cache, op_cache, trail, table, reached, saved, fixed,
                    script, spawn >>

\* DynamicOpCache::rehash()
DynRehash ==
    /\ DynLive
    /\ Len(dynamic.cache.hashes) <= MaxCapacity
    /\ dynamic' = [dynamic EXCEPT !.call = "rehash",
                                  !.earlier = dynamic.inserted,
                                  !.cache = rehash(dynamic.cache),
                                  !.query = << >>, !.returns = FALSE,
                                  !.rehashes = TRUE]
    /\ UNCHANGED << main, codec, cache, op_cache, trail, table, reached, saved, fixed,
                    script, spawn >>

\* DynamicOpCache::contains(l, r); the pair asked for and the answer are kept.
DynContains ==
    /\ DynLive /\ dynamic.call # "new"
    /\ \E value \in DynPairs :
          dynamic' = [dynamic EXCEPT !.call = "contains",
                                     !.earlier = dynamic.inserted,
                                     !.query = value,
                                     !.returns = dyn_contains(dynamic.cache,
                                                              value[1], value[2])]
    /\ UNCHANGED << main, codec, cache, op_cache, trail, table, reached, saved, fixed,
                    script, spawn >>

\* The caller drops the cache.
DynDrop ==
    /\ dynamic # NoDynamic /\ dynamic.call = "contains"
    /\ dynamic' = NoDynamic
    /\ UNCHANGED << main, codec, cache, op_cache, trail, table, reached, saved, fixed,
                    script, spawn >>

DynNext ==
    \/ DynNew
    \/ DynInsert
    \/ DynRehash
    \/ DynContains
    \/ DynDrop

DynSpec == Init /\ [][DynNext]_vars

\* C33: contains(l, r) returns true, and insert(l, r) returns false, only
\* for a pair that an earlier call of insert was given.
C33_DynamicNoFalsePositives ==
    /\ (dynamic.call = "contains" /\ dynamic.returns) => dynamic.query \in dynamic.earlier
    /\ (dynamic.call = "insert" /\ ~dynamic.returns) => dynamic.query \in dynamic.earlier

\* After a rehash, insert has returned false for a pair inserted before it,
\* and the table has more items than slots at the start.
C33_Witness ==
    /\ dynamic.call = "insert" /\ ~dynamic.returns
    /\ dynamic.cache.index_after_last_sorted_entry >= 2
    /\ Cardinality(dynamic.earlier) >= 3

\* C34 as stated: when insert(l, r) has returned, contains(l, r) is true.
C34_InsertedIsFound ==
    dynamic.call = "insert" =>
        dyn_contains(dynamic.cache, dynamic.query[1], dynamic.query[2])

\* C34, amended: when insert(l, r) has returned, contains(l, r) is true,
\* unless the insert has re-hashed the table and a greater item has the
\* slot of (l, r) in the new table.
C34_InsertedIsFoundUnlessRehashed ==
    dynamic.call = "insert" =>
        \/ dyn_contains(dynamic.cache, dynamic.query[1], dynamic.query[2])
        \/ /\ dynamic.rehashes
           /\ \E i \in 1 .. Len(dynamic.cache.items) :
                 /\ pair_less(dynamic.query, dynamic.cache.items[i])
                 /\ hash_slot(dynamic.cache.items[i], Len(dynamic.cache.hashes))
                       = hash_slot(dynamic.query, Len(dynamic.cache.hashes))

\* An insert that met a collision and did not re-hash: the new pair has
\* the slot and is found, the pair it collided with is not.
C34_Witness ==
    /\ dynamic.call = "insert" /\ dynamic.returns /\ ~dynamic.rehashes
    /\ dynamic.cache.collisions_since_rehash >= 1
    /\ dyn_contains(dynamic.cache, dynamic.query[1], dynamic.query[2])
    /\ \E value \in dynamic.earlier : ~dyn_contains(dynamic.cache, value[1], value[2])

\* C35: an insert that stored a new item and came to its end with at least
\* a quarter as many collisions as items has re-hashed the table.
C35_RehashAtOneQuarter ==
    (/\ dynamic.call = "insert" /\ dynamic.returns
     /\ 4 * dynamic.collisions >= dynamic.stored)
        => dynamic.rehashes

\* C38: every entry of hashes is usize::MAX or the index of an item, and
\* that item hashes to the entry's slot.
C38_HashesConsistent ==
    dynamic # NoDynamic =>
        \A slot \in 1 .. Len(dynamic.cache.hashes) :
            LET index == dynamic.cache.hashes[slot]
            IN  index # NoItem =>
                  /\ index >= 0 /\ index < Len(dynamic.cache.items)
                  /\ hash_slot(dynamic.cache.items[index + 1],
                               Len(dynamic.cache.hashes)) = slot

\* A table that was re-hashed twice and holds items again inserted since.
C38_Witness ==
    /\ dynamic # NoDynamic /\ dynamic.call = "insert"
    /\ Len(dynamic.cache.hashes) >= 4
    /\ dynamic.cache.index_after_last_sorted_entry >= 1
    /\ Len(dynamic.cache.items) > dynamic.cache.index_after_last_sorted_entry
    /\ \E slot \in 1 .. Len(dynamic.cache.hashes) : dynamic.cache.hashes[slot] = NoItem

(***************************************************************************)
(* _impl_bdd/bench_task_generator.rs: the task generators.  spawn_tasks    *)
(* keeps the expanded tasks in an exact HashSet; spawn_tasks_2 keeps them  *)
(* in a Cache2 and takes tasks off the stack eight at a time.  Both work   *)
(* on crate::Bdd (the flat Bdd above).                                     *)
(***************************************************************************)
\* Bdd::links
flat_links(bdd, p) == << flat_low_link_of(bdd, p), flat_high_link_of(bdd, p) >>

\* The two child tasks of the task (l, r): (low, high).
spawn_children(l_bdd, r_bdd, l, r) ==
    LET l_v == flat_var_of(l_bdd, l)
        r_v == flat_var_of(r_bdd, r)
        decision_var == min(l_v, r_v)
        l_links == IF l_v # decision_var THEN << l, l >> ELSE flat_links(l_bdd, l)
        r_links == IF r_v # decision_var THEN << r, r >> ELSE flat_links(r_bdd, r)
    IN  << << l_links[1], r_links[1] >>, << l_links[2], r_links[2] >> >>

RECURSIVE spawn_tasks_loop(_, _, _, _)
\* Lines 23-50: the loop of spawn_tasks; the value is op_cache at its end.
spawn_tasks_loop(l_bdd, r_bdd, stack, seen) ==
    IF stack = << >> THEN seen
    ELSE LET on_stack == last(stack)
         IN  IF on_stack \in seen
             THEN spawn_tasks_loop(l_bdd, r_bdd, pop(stack), seen)
             ELSE LET now == seen \cup {on_stack}
                      c == spawn_children(l_bdd, r_bdd, on_stack[1], on_stack[2])
                      s1 == IF c[1] \notin now THEN Append(pop(stack), c[1]) ELSE pop(stack)
                      s2 == IF c[2] \notin now THEN Append(s1, c[2]) ELSE s1
                  IN  spawn_tasks_loop(l_bdd, r_bdd, s2, now)

\* The tasks spawn_tasks has in op_cache when it returns, and their number.
spawn_tasks_set(l_bdd, r_bdd) ==
    spawn_tasks_loop(l_bdd, r_bdd,
                     << << flat_root_pointer(l_bdd), flat_root_pointer(r_bdd) >> >>, {})
spawn_tasks(l_bdd, r_bdd) == Cardinality(spawn_tasks_set(l_bdd, r_bdd))

\* iteration(left, right, op_cache, stack, l, r) on the locals of
\* spawn_tasks_2; expanded keeps the tasks that went past the first test.
spawn_iteration(l_bdd, r_bdd, st, l, r) ==
    IF contains(st.op_cache, l, r) THEN st
    ELSE LET c2 == [st.op_cache EXCEPT !.items = cache2_insert(st.op_cache, l, r)]
             c == spawn_children(l_bdd, r_bdd, l, r)
             s1 == IF ~contains(c2, c[1][1], c[1][2]) THEN Append(st.stack, c[1])
                   ELSE st.stack
             s2 == IF ~contains(c2, c[2][1], c[2][2]) THEN Append(s1, c[2]) ELSE s1
         IN  [st EXCEPT !.op_cache = c2, !.stack = s2,
                        !.expanded = st.expanded \cup {<< l, r >>}]

\* Faulty variant: the first of the eight tasks taken off the stack is
\* not expanded.
batch_skip_first(l_bdd, r_bdd, st) ==
    LET n == Len(st.stack)
        x(k) == st.stack[n - k + 1]
        s0 == [st EXCEPT !.stack = SubSeq(st.stack, 1, n - 8), !.i = st.i + 8]
        s2 == spawn_iteration(l_bdd, r_bdd, s0, x(2)[1], x(2)[2])
        s3 == spawn_iteration(l_bdd, r_bdd, s2, x(3)[1], x(3)[2])
        s4 == spawn_iteration(l_bdd, r_bdd, s3, x(4)[1], x(4)[2])
        s5 == spawn_iteration(l_bdd, r_bdd, s4, x(5)[1], x(5)[2])
        s6 == spawn_iteration(l_bdd, r_bdd, s5, x(6)[1], x(6)[2])
        s7 == spawn_iteration(l_bdd, r_bdd, s6, x(7)[1], x(7)[2])
    IN  spawn_iteration(l_bdd, r_bdd, s7, x(8)[1], x(8)[2])

\* Lines 100-116: eight tasks are taken off the stack, then expanded in
\* the order they were taken.
batch(l_bdd, r_bdd, st) ==
    LET n == Len(st.stack)
        x(k) == st.stack[n - k + 1]
        s0 == [st EXCEPT !.stack = SubSeq(st.stack, 1, n - 8), !.i = st.i + 8]
        s1 == spawn_iteration(l_bdd, r_bdd, s0, x(1)[1], x(1)[2])
        s2 == spawn_iteration(l_bdd, r_bdd, s1, x(2)[1], x(2)[2])
        s3 == spawn_iteration(l_bdd, r_bdd, s2, x(3)[1], x(3)[2])
        s4 == spawn_iteration(l_bdd, r_bdd, s3, x(4)[1], x(4)[2])
        s5 == spawn_iteration(l_bdd, r_bdd, s4, x(5)[1], x(5)[2])
        s6 == spawn_iteration(l_bdd, r_bdd, s5, x(6)[1], x(6)[2])
        s7 == spawn_iteration(l_bdd, r_bdd, s6, x(7)[1], x(7)[2])
    IN  spawn_iteration(l_bdd, r_bdd, s7, x(8)[1], x(8)[2])

\* Lines 117-119: one task is taken off the stack and expanded.
single(l_bdd, r_bdd, st) ==
    LET x == last(st.stack)
    IN  spawn_iteration(l_bdd, r_bdd,
                        [st EXCEPT !.stack = pop(st.stack), !.i = st.i + 1], x[1], x[2])

RECURSIVE flat_chain_nodes(_, _)
\* The nodes of the conjunction of the variables v .. num_vars - 1, deepest
\* variable first: each node's high link is the node pushed before it.
flat_chain_nodes(num_vars, v) ==
    IF v = num_vars - 1
    THEN flat_mk_true(num_vars).nodes \o << flat_node(v, 0, 1) >>
    ELSE LET deeper == flat_chain_nodes(num_vars, v + 1)
         IN  Append(deeper, flat_node(v, 0, Len(deeper) - 1))

\* The Bdd of x_0 & x_1 & ... & x_(num_vars - 1).
flat_mk_chain(num_vars) == flat_bdd(num_vars, flat_chain_nodes(num_vars, 0))

\* The arguments of spawn_tasks_2: the constants, literals, Bdds of two
\* variables and the conjunction of all variables, over ChainVars variables.
SpawnInputs ==
    { flat_mk_false(ChainVars), flat_mk_true(ChainVars), flat_mk_chain(ChainVars),
      flat_mk_var(ChainVars, 0, TRUE), flat_mk_var(ChainVars, 1, FALSE),
      flat_mk_var(ChainVars, ChainVars - 1, TRUE),
      flat_mk_pair(ChainVars, 0, 1, "xor"), flat_mk_pair(ChainVars, 0, 2, "and"),
      flat_mk_pair(ChainVars, 1, ChainVars - 1, "or") }

\* What tells one state of the loop of spawn_tasks_2 from another.
spawn_state == << spawn.stack, spawn.op_cache.items >>

\* spawn_tasks_2 is called with a cache of some capacity; lines 56-67, the
\* stack and the cache are cleared and the root task is pushed.
SpawnCall ==
    /\ spawn = NoSpawn
    /\ \E l_bdd \in SpawnInputs, r_bdd \in SpawnInputs, size \in 1 .. MaxCapacity :
          spawn' = [pc |-> "loop", left |-> l_bdd, right |-> r_bdd,
                    op_cache |-> [capacity |-> size, collisions |-> 0,
                                  items |-> [k \in 1 .. (size + 1) |-> U32_MAX]],
                    stack |-> << << flat_root_pointer(l_bdd), flat_root_pointer(r_bdd) >> >>,
                    i |-> 0, expanded |-> {}, batches |-> 0, seen |-> {}]
    /\ UNCHANGED << main, codec, cache, op_cache, trail, table, reached, saved, fixed,
                    script, dynamic >>

\* Lines 99-116: more than eight tasks on the stack.
SpawnBatch ==
    /\ spawn.pc = "loop" /\ Len(spawn.stack) > 8
    /\ spawn' = [batch(spawn.left, spawn.right, spawn)
                    EXCEPT !.batches = spawn.batches + 1,
                           !.seen = spawn.seen \cup {spawn_state}]
    /\ UNCHANGED << main, codec, cache, op_cache, trail, table, reached, saved, fixed,
                    script, dynamic >>

\* Lines 117-119: one to eight tasks on the stack.
SpawnSingle ==
    /\ spawn.pc = "loop" /\ Len(spawn.stack) <= 8 /\ spawn.stack # << >>
    /\ spawn' = [single(spawn.left, spawn.right, spawn)
                    EXCEPT !.seen = spawn.seen \cup {spawn_state}]
    /\ UNCHANGED << main, codec, cache, op_cache, trail, table, reached, saved, fixed,
                    script, dynamic >>

\* Lines 120-125: the stack is empty, spawn_tasks_2 returns (i, collisions).
SpawnReturn ==
    /\ spawn.pc = "loop" /\ spawn.stack = << >>
    /\ spawn' = [spawn EXCEPT !.pc = "done"]
    /\ UNCHANGED << main, codec, cache, op_cache, trail, table, reached, saved, fixed,
                    script, dynamic >>

\* The caller drops the result.
SpawnDrop ==
    /\ spawn.pc = "done"
    /\ spawn' = NoSpawn
    /\ UNCHANGED << main, codec, cache, op_cache, trail, table, reached, saved, fixed,
                    script, dynamic >>

SpawnNext ==
    \/ SpawnCall
    \/ SpawnBatch
    \/ SpawnSingle
    \/ SpawnReturn
    \/ SpawnDrop

SpawnSpec == Init /\ [][SpawnNext]_vars

\* C36: for every Cache2 capacity >= 1, spawn_tasks_2 terminates (its loop
\* is deterministic, so it never comes back to a state it has been in),
\* and when it returns it has expanded every task that spawn_tasks counts,
\* so the iteration count it returns is at least spawn_tasks(left, right);
\* the batches of eight skip no task.
C36_SpawnTerminatesAndCovers ==
    /\ spawn.pc = "loop" => spawn_state \notin spawn.seen
    /\ spawn.pc = "done" =>
          /\ spawn_tasks_set(spawn.left, spawn.right) \subseteq spawn.expanded
          /\ spawn.i >= spawn_tasks(spawn.left, spawn.right)

\* spawn_tasks_2 has returned after a batch of eight, with a cache of one
\* slot, having expanded some task more than once.
C36_Witness ==
    /\ spawn.pc = "done" /\ spawn.batches >= 1
    /\ spawn.op_cache.capacity = 1
    /\ spawn.i > spawn_tasks(spawn.left, spawn.right)
    /\ spawn_tasks(spawn.left, spawn.right) >= ChainVars

====
